---- MODULE Spec2Model ----
(***************************************************************************)
(* A model of anvill's FunctionLifter (anvill/src/Lifters/FunctionLifter   *)
(* .cpp): the work-list driver that decodes and lifts the instructions of  *)
(* one function, the target-resolution policy, the instruction decoder's   *)
(* byte window, and the category visitors that wire the control flow.      *)
(*                                                                         *)
(* The providers (memory, types, redirections) and the instruction         *)
(* decoder are collaborators of the lifter.  They are modelled as inputs   *)
(* fixed in the initial state: a memory image whose bytes encode the       *)
(* instruction (category in the high nibble, operand in the low nibble), a *)
(* redirection table and a table of function declarations.                 *)
(***************************************************************************)
EXTENDS Integers, Sequences, FiniteSets, TLC

VARIABLES
  memory,          \* MemoryProvider: address -> [byte, avail, perms]
  redirections,    \* ControlFlowProvider: address -> address (partial)
  type_provider,   \* TypeProvider: address -> function type (0: none)
  arch,            \* options.arch of the lifter instance driven by Spec
  entry_decl,      \* the FunctionDecl passed to LiftFunction
  fl,              \* the FunctionLifter instance (its fields, and the IR)
  phase,           \* where the process is: "start", "visit", "done", "abort"
  max_inst_size,   \* the function-local static of DecodeInstructionInto
  null_deref,      \* what this build does when a null llvm::Function is used
  decode_log,      \* the last DecodeInstructionInto call of SpecDecode
  return_log,      \* the last LoadFunctionReturnAddress call of SpecReturn
  context,         \* the EntityLifterImpl: target module and entity maps
  options,         \* LifterOptions: the flags the lifter reads
  register_hints   \* TypeProvider: instruction address -> register type hints

inputs == <<memory, redirections, type_provider, arch, entry_decl, null_deref,
            options, register_hints>>
vars == <<memory, redirections, type_provider, arch, entry_decl, null_deref,
          options, register_hints,
          fl, phase, max_inst_size, decode_log, return_log, context>>

\* The records of single calls; the lifts leave them alone.
logs == <<decode_log, return_log>>

----------------------------------------------------------------------------
(* Bounds of the model *)

\* Addresses 0..MaxAddr are backed by the memory image; all others are not.
MaxAddr == 2

Addr == 0..MaxAddr

----------------------------------------------------------------------------
(* Small helpers for maps (std::map / std::unordered_map) *)

EmptyMap == <<>>

Put(f, k, v) == [x \in (DOMAIN f) \cup {k} |-> IF x = k THEN v ELSE f[x]]

Has(f, k) == k \in DOMAIN f

----------------------------------------------------------------------------
(* Memory provider *)

Availabilities == {"Unknown", "Unavailable", "Available"}
Permissions == {"Unknown", "R", "RW", "RX", "RWX"}

\* MemoryProvider::Query: total on addresses; an address outside the image
\* is unavailable.
Query(a) ==
  IF a \in DOMAIN memory THEN memory[a]
  ELSE [byte |-> 0, avail |-> "Unavailable", perms |-> "Unknown"]

IsValidAddress(avail) == avail \in {"Unknown", "Available"}

IsExecutable(perms) == perms \in {"Unknown", "RX", "RWX"}

HasByte(avail) == avail = "Available"

----------------------------------------------------------------------------
(* Control-flow provider and type provider *)

GetRedirection(a) == IF a \in DOMAIN redirections THEN redirections[a] ELSE a

\* TypeProvider::TryGetFunctionType: the declared type at `a`, 0 when none.
TryGetFunctionType(a) == IF a \in DOMAIN type_provider THEN type_provider[a] ELSE 0

\* FunctionDecl::Create(func, arch): the ABI of a function type can be
\* derived, or cannot.  Types are small numbers; UnbuildableType stands for
\* a type/calling convention with no ABI.
UnbuildableType == 3

FunctionDeclCreateOk(type) == type # UnbuildableType

----------------------------------------------------------------------------
(* Instruction decoder (remill::Arch) for the byte encoding of the model *)

Categories ==
  << "Invalid", "Normal", "NoOp", "Error", "DirectJump", "IndirectJump",
     "ConditionalIndirectJump", "DirectFunctionCall",
     "ConditionalDirectFunctionCall", "IndirectFunctionCall",
     "ConditionalIndirectFunctionCall", "FunctionReturn",
     "ConditionalFunctionReturn", "ConditionalBranch", "AsyncHyperCall",
     "ConditionalAsyncHyperCall" >>

CatIndex(cat) == CHOOSE i \in 1..Len(Categories) : Categories[i] = cat

\* The byte that encodes category `cat` with operand `operand` (0..15).
Enc(cat, operand) == (CatIndex(cat) - 1) * 16 + operand

\* Architectures and their maximum instruction size in bytes.
X86MaxInstructionSize == 15
SparcMaxInstructionSize == 4

MaxInstructionSize(a) ==
  IF a = "sparc" THEN SparcMaxInstructionSize ELSE X86MaxInstructionSize

IsSPARC(a) == a = "sparc"

ControlFlowCategories ==
  { "DirectJump", "IndirectJump", "ConditionalIndirectJump",
    "DirectFunctionCall", "ConditionalDirectFunctionCall",
    "IndirectFunctionCall", "ConditionalIndirectFunctionCall",
    "FunctionReturn", "ConditionalFunctionReturn", "ConditionalBranch" }

ConditionalCategories ==
  { "ConditionalIndirectJump", "ConditionalDirectFunctionCall",
    "ConditionalIndirectFunctionCall", "ConditionalFunctionReturn",
    "ConditionalBranch", "ConditionalAsyncHyperCall" }

\* remill::Instruction::Reset
InvalidInstruction(addr) ==
  [ ok |-> FALSE, category |-> "Invalid", pc |-> addr, next_pc |-> addr,
    delayed_pc |-> 0, branch_taken_pc |-> 0, branch_not_taken_pc |-> 0,
    has_delay_slot |-> FALSE, taken_ds |-> FALSE, not_taken_ds |-> FALSE,
    nbytes |-> 0 ]

\* Arch::DecodeInstruction / Arch::DecodeDelayedInstruction on the bytes the
\* lifter hands over.  One byte encodes an instruction: the category in the
\* high nibble, an absolute target in the low three bits and the annul bit
\* in bit 3.  Only SPARC has delay slots; an instruction in a delay slot may
\* not itself be a control-flow instruction.
ArchDecode(a, addr, bytes, is_delayed) ==
  IF bytes = <<>> THEN InvalidInstruction(addr)
  ELSE
    LET b      == bytes[1]
        cat    == Categories[(b \div 16) + 1]
        tgt    == (b % 16) % 8
        annul  == (b % 16) \div 8 = 1
        slot   == IsSPARC(a) /\ cat \in ControlFlowCategories
        ok     == /\ cat # "Invalid"
                  /\ (is_delayed => cat \in {"Normal", "NoOp"})
    IN [ ok |-> ok,
         category |-> IF ok THEN cat ELSE "Invalid",
         pc |-> addr,
         next_pc |-> addr + 1,
         delayed_pc |-> IF slot THEN addr + 1 ELSE 0,
         branch_taken_pc |-> tgt,
         branch_not_taken_pc |-> IF slot THEN addr + 2 ELSE addr + 1,
         has_delay_slot |-> slot,
         taken_ds |-> slot /\ (cat \in ConditionalCategories \/ ~annul),
         not_taken_ds |-> slot /\ cat \in ConditionalCategories /\ ~annul,
         nbytes |-> Len(bytes) ]

\* Arch::MayHaveDelaySlot
MayHaveDelaySlot(inst) == inst.has_delay_slot

\* Arch::NextInstructionIsDelayed
NextInstructionIsDelayed(inst, delayed, on_taken_path) ==
  /\ inst.delayed_pc = delayed.pc
  /\ IF on_taken_path THEN inst.taken_ds ELSE inst.not_taken_ds

----------------------------------------------------------------------------
(* DecodeInstructionInto *)

\* The lambda accumulate_inst_byte: whether the queried byte goes into the
\* decode buffer.
AccumulateInstByte(q) ==
  CASE q.avail \in {"Unknown", "Unavailable"} -> FALSE
    [] q.perms \in {"Unknown", "RX", "RWX"} -> TRUE
    [] OTHER -> FALSE

\* The loop `for (i = 0; i < max_inst_size; ++i)`: queries addr + i and stops
\* at the first byte that is not accumulated.
RECURSIVE ReadInstBytes(_, _, _)
ReadInstBytes(addr, i, max) ==
  IF i >= max THEN [bytes |-> <<>>, queried |-> <<>>]
  ELSE
    LET q == Query(addr + i) IN
    IF AccumulateInstByte(q)
      THEN LET r == ReadInstBytes(addr, i + 1, max)
           IN [bytes |-> <<q.byte>> \o r.bytes,
               queried |-> <<addr + i>> \o r.queried]
      ELSE [bytes |-> <<>>, queried |-> <<addr + i>>]

\* `static const auto max_inst_size = options.arch->MaxInstructionSize()`:
\* a function-local static is initialised by the first call in the process
\* (0 stands for "not yet initialised") and keeps that value afterwards.
StaticMaxInstSize(a) ==
  IF max_inst_size = 0 THEN MaxInstructionSize(a) ELSE max_inst_size

\* DecodeInstructionInto called on a lifter instance whose options.arch is
\* `a`.  Returns the instruction, the bytes handed to the decoder and the
\* addresses queried.
DecodeInstructionInto(a, addr, is_delayed) ==
  LET r == ReadInstBytes(addr, 0, StaticMaxInstSize(a))
  IN [ inst |-> ArchDecode(a, addr, r.bytes, is_delayed),
       bytes |-> r.bytes,
       queried |-> r.queried ]

----------------------------------------------------------------------------
(* The lifted IR: a block is a sequence of items *)

NullInst == -1
NullFunc == <<>>

Item(op, fn, addr, t, f, state) ==
  [op |-> op, fn |-> fn, addr |-> addr, t |-> t, f |-> f, state |-> state]

\* InstructionLifter::LiftIntoBlock
LiftItem(pc, is_delayed) ==
  Item("lift", IF is_delayed THEN "delayed" ELSE "inst", pc, 0, 0, "state")

BranchItem(target) == Item("br", "", 0, target, 0, "")

CondBranchItem(taken, not_taken) == Item("condbr", "", 0, taken, not_taken, "")

\* remill::AddCall(block, intrinsic)
IntrinsicCallItem(intrinsic) == Item("call", intrinsic, 0, 0, 0, "state")

\* remill::AddTerminatingTailCall(block, intrinsic): a call that passes the
\* state pointer, followed by a return of its result.
TerminatingTailCall(intrinsic) == Item("tailcall", intrinsic, 0, 0, 0, "state")

\* MuteStateEscape that leaves the call as it is.
MuteStateEscapeNothing(call) == call

\* MuteStateEscape: the state-pointer argument becomes an undefined value.
MuteStateEscape(call) == [call EXCEPT !.state = "undef"]

\* FunctionDecl::CallFromLiftedBlock on the wrapper <<addr, type>>
NativeCallItem(func) == Item("call_native", "", func[1], func[2], 0, "state")

\* llvm::ReturnInst::Create(context, mem_ptr_from_call, block)
ReturnItem == Item("ret", "", 0, 0, 0, "")

StoreItem(reg, adjust) == Item("store", reg, adjust, 0, 0, "state")

AppendTo(L, block, item) == [L EXCEPT !.blocks[block] = Append(@, item)]

\* llvm::BasicBlock::Create(llvm_context, name, lifted_func)
CreateBlock(L) ==
  [ L |-> [L EXCEPT !.blocks = Put(@, L.next_block, <<>>),
                    !.next_block = @ + 1],
    block |-> L.next_block ]

----------------------------------------------------------------------------
(* FunctionLifter: blocks, target resolution, declarations *)

Bump(f, k) == Put(f, k, IF Has(f, k) THEN f[k] + 1 ELSE 1)

Count(f, k) == IF Has(f, k) THEN f[k] ELSE 0

Aborted(L) == L.aborted # ""

\* GetOrCreateBlock without the lookup: every request allocates.
GetOrCreateBlockAlwaysNew(L, addr) ==
  LET from_pc == IF L.curr_inst # NullInst THEN L.curr_inst ELSE 0
      key     == <<from_pc, addr>>
      c       == CreateBlock(L)
  IN [ L |-> [c.L EXCEPT
                !.edge_to_dest_block = Put(@, key, c.block),
                !.edge_work_list = @ \cup {<<addr, from_pc>>},
                !.n_enqueued = Bump(@, <<addr, from_pc>>)],
       block |-> c.block ]

\* FunctionLifter::GetOrCreateBlock.  The ghost field n_enqueued counts the
\* calls of edge_work_list.emplace per (addr, from_pc) pair.
GetOrCreateBlock(L, addr) ==
  LET from_pc == IF L.curr_inst # NullInst THEN L.curr_inst ELSE 0
      key     == <<from_pc, addr>>
  IN IF Has(L.edge_to_dest_block, key)
       THEN [L |-> L, block |-> L.edge_to_dest_block[key]]
       ELSE LET c == CreateBlock(L)
            IN [ L |-> [c.L EXCEPT
                          !.edge_to_dest_block = Put(@, key, c.block),
                          !.edge_work_list = @ \cup {<<addr, from_pc>>},
                          !.n_enqueued = Bump(@, <<addr, from_pc>>)],
                 block |-> c.block ]

\* FunctionLifter::GetOrCreateTargetBlock
GetOrCreateTargetBlock(L, addr) == GetOrCreateBlock(L, GetRedirection(addr))

\* TryGetTargetFunctionType that leaves the FunctionDecl's address as the
\* type provider returned it (the address it was found at).
TryGetTargetFunctionTypeKeepAddress(address) ==
  LET redirected_addr == GetRedirection(address)
      first  == TryGetFunctionType(redirected_addr)
      retry  == first = 0 /\ redirected_addr # address
      type   == IF retry THEN TryGetFunctionType(address) ELSE first
  IN [ has |-> type # 0,
       type |-> type,
       address |-> IF type = 0 THEN 0
                   ELSE IF retry THEN address ELSE redirected_addr,
       queried |-> IF retry THEN <<redirected_addr, address>>
                   ELSE <<redirected_addr>> ]

\* FunctionLifter::TryGetTargetFunctionType.  `queried` lists the addresses
\* at which the type provider was asked, in order.
TryGetTargetFunctionType(address) ==
  LET redirected_addr == GetRedirection(address)
      first  == TryGetFunctionType(redirected_addr)
      retry  == first = 0 /\ redirected_addr # address
      type   == IF retry THEN TryGetFunctionType(address) ELSE first
  IN [ has |-> type # 0,
       type |-> type,
       address |-> IF type # 0 THEN redirected_addr ELSE 0,
       queried |-> IF retry THEN <<redirected_addr, address>>
                   ELSE <<redirected_addr>> ]

\* FunctionLifter::GetOrDeclareFunction.  A function of the semantics module
\* is identified by its generated name, here <<address, type>>.
GetOrDeclareFunction(L, decl) ==
  IF Has(L.addr_to_func, decl.address)
    THEN IF L.addr_to_func[decl.address][2] # decl.type
           THEN [L |-> [L EXCEPT !.aborted = "CHECK_EQ function type"],
                 func |-> NullFunc]
           ELSE [L |-> L, func |-> L.addr_to_func[decl.address]]
    ELSE
      LET base_name == <<decl.address, decl.type>>
          L1 == [L EXCEPT
                   !.func_name_to_address =
                      IF Has(@, base_name) THEN @
                      ELSE Put(@, base_name, decl.address),
                   !.addr_to_func = Put(@, decl.address, base_name),
                   !.module = IF Has(@, base_name) THEN @
                              ELSE Put(@, base_name, [body |-> FALSE])]
      IN [L |-> L1, func |-> base_name]

\* DeclareFunction without the test of the first byte.
DeclareFunctionUnchecked(L, decl) == GetOrDeclareFunction(L, decl)

\* FunctionLifter::DeclareFunction
DeclareFunction(L, decl) ==
  LET q == Query(decl.address)
  IN IF ~IsValidAddress(q.avail) \/ ~IsExecutable(q.perms)
       THEN [L |-> L, func |-> NullFunc]
       ELSE GetOrDeclareFunction(L, decl)

\* What using the null native_func does (FunctionDecl::Create(*native_func)
\* and native_func->getName() on a null pointer are undefined behaviour).
NullDerefOutcomes == {"trap", "create_fails", "call_emitted"}

\* FunctionLifter::TryCallNativeFunction.  Returns ok = FALSE for nullptr.
TryCallNativeFunction(L, native_addr, native_func, block) ==
  IF native_func = NullFunc
    THEN CASE null_deref = "trap" ->
                [L |-> [L EXCEPT !.aborted = "null function dereferenced"],
                 ok |-> FALSE]
           [] null_deref = "create_fails" -> [L |-> L, ok |-> FALSE]
           [] OTHER ->
                [L |-> AppendTo(L, block, Item("call_native", "", native_addr, 0, 0, "state")),
                 ok |-> TRUE]
    ELSE
      LET cached == Count(L.addr_to_decl, native_addr) # 0
          type   == native_func[2]
      IN IF ~cached /\ ~FunctionDeclCreateOk(type)
           THEN [L |-> [L EXCEPT !.addr_to_decl = Put(@, native_addr, 0)],
                 ok |-> FALSE]
           ELSE [L |-> AppendTo(
                         [L EXCEPT !.addr_to_decl =
                            IF cached THEN @ ELSE Put(@, native_addr, type)],
                         block, NativeCallItem(native_func)),
                 ok |-> TRUE]

\* CallFunction that emits no call when the typed call cannot be built.
CallFunctionNoFallback(L, inst, block) ==
  LET d == TryGetTargetFunctionType(inst.branch_taken_pc)
      Declared(r) ==
        IF Aborted(r.L) THEN r.L
        ELSE IF r.func # NullFunc
          THEN TryCallNativeFunction(r.L, d.address, r.func, block).L
          ELSE AppendTo(r.L, block, IntrinsicCallItem("function_call"))
  IN IF d.has
       THEN Declared(DeclareFunction(L, [address |-> d.address, type |-> d.type]))
       ELSE AppendTo(L, block, IntrinsicCallItem("function_call"))

\* FunctionLifter::CallFunction
CallFunction(L, inst, block) ==
  LET d == TryGetTargetFunctionType(inst.branch_taken_pc)
      Called(c) ==
        IF c.ok \/ Aborted(c.L) THEN c.L
        ELSE AppendTo(c.L, block, IntrinsicCallItem("function_call"))
      Declared(r) ==
        IF Aborted(r.L) THEN r.L
        ELSE IF r.func # NullFunc
          THEN Called(TryCallNativeFunction(r.L, d.address, r.func, block))
          ELSE AppendTo(r.L, block, IntrinsicCallItem("function_call"))
  IN IF d.has
       THEN Declared(DeclareFunction(L, [address |-> d.address, type |-> d.type]))
       ELSE AppendTo(L, block, IntrinsicCallItem("function_call"))

----------------------------------------------------------------------------
(* FunctionLifter: the category visitors *)

\* delayed_inst == nullptr: the instruction has no delay slot.
NoDelayedInst == InvalidInstruction(NullInst)

\* FunctionLifter::VisitDelayedInstruction
VisitDelayedInstruction(L, inst, delayed, block, on_taken_path) ==
  IF delayed # NoDelayedInst /\ NextInstructionIsDelayed(inst, delayed, on_taken_path)
    THEN AppendTo(L, block, LiftItem(delayed.pc, TRUE))
    ELSE L

\* Appends a branch to the block of `addr` (after redirection) to `block`.
BranchToTarget(L, block, addr) ==
  LET Branch(g) == AppendTo(g.L, block, BranchItem(g.block))
  IN Branch(GetOrCreateTargetBlock(L, addr))

\* The common prologue of the conditional visitors: creates the taken and
\* not-taken blocks and branches to them on the branch-taken condition.
SplitBlock(L, block) ==
  LET Split(t, n) ==
        [ L |-> AppendTo(n.L, block, CondBranchItem(t.block, n.block)),
          taken |-> t.block, not_taken |-> n.block ]
      Second(t) == Split(t, CreateBlock(t.L))
  IN Second(CreateBlock(L))

VisitInvalid(L, inst, block) ==
  AppendTo(L, block, MuteStateEscape(TerminatingTailCall("error")))

VisitError(L, inst, delayed, block) ==
  AppendTo(VisitDelayedInstruction(L, inst, delayed, block, TRUE), block,
           MuteStateEscape(TerminatingTailCall("error")))

VisitNormal(L, inst, block) == BranchToTarget(L, block, inst.next_pc)

VisitNoOp(L, inst, block) == VisitNormal(L, inst, block)

\* VisitDirectJump that branches to the block of the next instruction.
VisitDirectJumpToNext(L, inst, delayed, block) ==
  BranchToTarget(VisitDelayedInstruction(L, inst, delayed, block, TRUE),
                 block, inst.next_pc)

VisitDirectJump(L, inst, delayed, block) ==
  BranchToTarget(VisitDelayedInstruction(L, inst, delayed, block, TRUE),
                 block, inst.branch_taken_pc)

VisitIndirectJump(L, inst, delayed, block) ==
  AppendTo(VisitDelayedInstruction(L, inst, delayed, block, TRUE), block,
           TerminatingTailCall("jump"))

VisitConditionalIndirectJump(L, inst, delayed, block) ==
  LET Sides(s) ==
        LET L1 == VisitDelayedInstruction(s.L, inst, delayed, s.taken, TRUE)
            L2 == VisitDelayedInstruction(L1, inst, delayed, s.not_taken, FALSE)
            L3 == AppendTo(L2, s.taken, TerminatingTailCall("jump"))
        IN BranchToTarget(L3, s.not_taken, inst.branch_not_taken_pc)
  IN Sides(SplitBlock(L, block))

VisitFunctionReturn(L, inst, delayed, block) ==
  AppendTo(VisitDelayedInstruction(L, inst, delayed, block, TRUE), block,
           MuteStateEscape(TerminatingTailCall("function_return")))

VisitConditionalFunctionReturn(L, inst, delayed, block) ==
  LET Sides(s) ==
        LET L1 == VisitDelayedInstruction(s.L, inst, delayed, s.taken, TRUE)
            L2 == AppendTo(L1, s.taken,
                           MuteStateEscape(TerminatingTailCall("function_return")))
            L3 == VisitDelayedInstruction(L2, inst, delayed, s.not_taken, FALSE)
        IN BranchToTarget(L3, s.not_taken, inst.branch_not_taken_pc)
  IN Sides(SplitBlock(L, block))

\* FunctionLifter::LoadFunctionReturnAddress: the resume address and what is
\* added to the loaded return PC.
LoadFunctionReturnAddress(inst) ==
  LET pc == inst.branch_not_taken_pc
      q(i) == Query(pc + i)
      usable(i) == /\ q(i).avail \notin {"Unknown", "Unavailable"}
                   /\ q(i).perms \notin {"R", "RW"}
      \* enc.flat = (bytes[0] << 24) | (bytes[1] << 16) | (bytes[2] << 8)
      \* | bytes[3]; op is its bits 31..30 and op2 its bits 24..22, which
      \* lie in the first two bytes.
      op   == q(0).byte \div 64
      op2  == (q(0).byte % 2) * 4 + (q(1).byte \div 64)
  IN IF ~IsSPARC(arch) THEN [pc |-> pc, adjust |-> 0]
     ELSE IF \E i \in 0..3 : ~usable(i) THEN [pc |-> pc, adjust |-> 0]
     ELSE IF op = 0 /\ op2 = 0 THEN [pc |-> pc + 4, adjust |-> 4]
     ELSE [pc |-> pc, adjust |-> 0]

\* FunctionLifter::VisitAfterFunctionCall
VisitAfterFunctionCall(L, inst, block) ==
  LET Resume(r) ==
        LET L1 == AppendTo(L, block, StoreItem("PC", r.adjust))
            L2 == AppendTo(L1, block, StoreItem("NEXT_PC", r.adjust))
        IN BranchToTarget(L2, block, r.pc)
  IN Resume(LoadFunctionReturnAddress(inst))

\* VisitDirectFunctionCall that also asks for the block of the call target.
VisitDirectFunctionCallIntoTarget(L, inst, delayed, block) ==
  LET AfterCall(L1) ==
        IF Aborted(L1) THEN L1 ELSE VisitAfterFunctionCall(L1, inst, block)
  IN AfterCall(CallFunction(
                 VisitDelayedInstruction(
                   GetOrCreateTargetBlock(L, inst.branch_taken_pc).L,
                   inst, delayed, block, TRUE),
                 inst, block))

VisitDirectFunctionCall(L, inst, delayed, block) ==
  LET AfterCall(L1) ==
        IF Aborted(L1) THEN L1 ELSE VisitAfterFunctionCall(L1, inst, block)
  IN AfterCall(CallFunction(
                 VisitDelayedInstruction(L, inst, delayed, block, TRUE),
                 inst, block))

VisitConditionalDirectFunctionCall(L, inst, delayed, block) ==
  LET Sides(s) ==
        LET AfterCall(L2) ==
              IF Aborted(L2) THEN L2
              ELSE BranchToTarget(
                     VisitDelayedInstruction(
                       VisitAfterFunctionCall(L2, inst, s.taken),
                       inst, delayed, s.not_taken, FALSE),
                     s.not_taken, inst.branch_not_taken_pc)
        IN AfterCall(CallFunction(
                       VisitDelayedInstruction(s.L, inst, delayed, s.taken, TRUE),
                       inst, s.taken))
  IN Sides(SplitBlock(L, block))

VisitIndirectFunctionCall(L, inst, delayed, block) ==
  VisitAfterFunctionCall(
    AppendTo(VisitDelayedInstruction(L, inst, delayed, block, TRUE), block,
             IntrinsicCallItem("function_call")),
    inst, block)

VisitConditionalIndirectFunctionCall(L, inst, delayed, block) ==
  LET Sides(s) ==
        LET L1 == VisitDelayedInstruction(s.L, inst, delayed, s.taken, TRUE)
            L2 == AppendTo(L1, s.taken, IntrinsicCallItem("function_call"))
            L3 == VisitAfterFunctionCall(L2, inst, s.taken)
            L4 == VisitDelayedInstruction(L3, inst, delayed, s.not_taken, FALSE)
        IN BranchToTarget(L4, s.not_taken, inst.branch_not_taken_pc)
  IN Sides(SplitBlock(L, block))

VisitConditionalBranch(L, inst, delayed, block) ==
  LET Sides(s) ==
        LET L1 == VisitDelayedInstruction(s.L, inst, delayed, s.taken, TRUE)
            L2 == VisitDelayedInstruction(L1, inst, delayed, s.not_taken, FALSE)
            L3 == BranchToTarget(L2, s.taken, inst.branch_taken_pc)
        IN BranchToTarget(L3, s.not_taken, inst.branch_not_taken_pc)
  IN Sides(SplitBlock(L, block))

\* VisitAsyncHyperCall with a plain call of the intrinsic in place of the
\* terminating tail call.
VisitAsyncHyperCallPlainCall(L, inst, delayed, block) ==
  AppendTo(VisitDelayedInstruction(L, inst, delayed, block, TRUE), block,
           IntrinsicCallItem("async_hyper_call"))

VisitAsyncHyperCall(L, inst, delayed, block) ==
  AppendTo(VisitDelayedInstruction(L, inst, delayed, block, TRUE), block,
           TerminatingTailCall("async_hyper_call"))

VisitConditionalAsyncHyperCall(L, inst, delayed, block) ==
  LET Sides(s) ==
        LET L1 == VisitDelayedInstruction(s.L, inst, delayed, s.taken, TRUE)
            L2 == VisitDelayedInstruction(L1, inst, delayed, s.not_taken, FALSE)
            L3 == AppendTo(L2, s.taken, TerminatingTailCall("async_hyper_call"))
        IN BranchToTarget(L3, s.not_taken, inst.branch_not_taken_pc)
  IN Sides(SplitBlock(L, block))

\* The switch with a case of its own for ConditionalDirectFunctionCall.
DispatchCategoryOwnVisitors(L, inst, delayed, block) ==
  CASE inst.category = "Invalid" -> VisitInvalid(L, inst, block)
    [] inst.category = "Error" -> VisitError(L, inst, delayed, block)
    [] inst.category = "Normal" -> VisitNormal(L, inst, block)
    [] inst.category = "NoOp" -> VisitNoOp(L, inst, block)
    [] inst.category = "DirectJump" -> VisitDirectJump(L, inst, delayed, block)
    [] inst.category = "IndirectJump" ->
         VisitIndirectJump(L, inst, delayed, block)
    [] inst.category = "ConditionalIndirectJump" ->
         VisitConditionalIndirectJump(L, inst, delayed, block)
    [] inst.category = "FunctionReturn" ->
         VisitFunctionReturn(L, inst, delayed, block)
    [] inst.category = "ConditionalFunctionReturn" ->
         VisitConditionalFunctionReturn(L, inst, delayed, block)
    [] inst.category = "DirectFunctionCall" ->
         VisitDirectFunctionCall(L, inst, delayed, block)
    [] inst.category = "ConditionalDirectFunctionCall" ->
         VisitConditionalDirectFunctionCall(L, inst, delayed, block)
    [] inst.category = "IndirectFunctionCall" ->
         VisitIndirectFunctionCall(L, inst, delayed, block)
    [] inst.category = "ConditionalIndirectFunctionCall" ->
         VisitConditionalIndirectFunctionCall(L, inst, delayed, block)
    [] inst.category = "ConditionalBranch" ->
         VisitConditionalBranch(L, inst, delayed, block)
    [] inst.category = "AsyncHyperCall" ->
         VisitAsyncHyperCall(L, inst, delayed, block)
    [] inst.category = "ConditionalAsyncHyperCall" ->
         VisitConditionalAsyncHyperCall(L, inst, delayed, block)

\* The switch on inst.category in VisitInstruction.
DispatchCategory(L, inst, delayed, block) ==
  CASE inst.category = "Invalid" -> VisitInvalid(L, inst, block)
    [] inst.category = "Error" -> VisitError(L, inst, delayed, block)
    [] inst.category = "Normal" -> VisitNormal(L, inst, block)
    [] inst.category = "NoOp" -> VisitNoOp(L, inst, block)
    [] inst.category = "DirectJump" -> VisitDirectJump(L, inst, delayed, block)
    [] inst.category = "IndirectJump" ->
         VisitIndirectJump(L, inst, delayed, block)
    [] inst.category = "ConditionalIndirectJump" ->
         VisitConditionalIndirectJump(L, inst, delayed, block)
    [] inst.category = "FunctionReturn" ->
         VisitFunctionReturn(L, inst, delayed, block)
    [] inst.category = "ConditionalFunctionReturn" ->
         VisitConditionalFunctionReturn(L, inst, delayed, block)
    [] inst.category = "DirectFunctionCall" ->
         VisitDirectFunctionCall(L, inst, delayed, block)
    [] inst.category = "ConditionalDirectFunctionCall" ->
         VisitDirectFunctionCall(L, inst, delayed, block)
    [] inst.category = "IndirectFunctionCall" ->
         VisitIndirectFunctionCall(L, inst, delayed, block)
    [] inst.category = "ConditionalIndirectFunctionCall" ->
         VisitConditionalIndirectFunctionCall(L, inst, delayed, block)
    [] inst.category = "ConditionalBranch" ->
         VisitConditionalBranch(L, inst, delayed, block)
    [] inst.category = "AsyncHyperCall" ->
         VisitAsyncHyperCall(L, inst, delayed, block)
    [] inst.category = "ConditionalAsyncHyperCall" ->
         VisitConditionalAsyncHyperCall(L, inst, delayed, block)

\* The registers of the architecture that hints name (remill::Register):
\* the enclosing register, the width in bits and whether the type is an
\* integer type.
Registers ==
  { [name |-> "RAX", enclosing |-> "RAX", bits |-> 64, integer |-> TRUE],
    [name |-> "EAX", enclosing |-> "RAX", bits |-> 32, integer |-> TRUE],
    [name |-> "RSP", enclosing |-> "RSP", bits |-> 64, integer |-> TRUE],
    [name |-> "SS", enclosing |-> "SS", bits |-> 16, integer |-> TRUE],
    [name |-> "ST0", enclosing |-> "ST0", bits |-> 64, integer |-> FALSE],
    [name |-> "XMM0", enclosing |-> "XMM0", bits |-> 128, integer |-> FALSE] }

\* remill::Arch::RegisterByName
RegisterByName(reg_name) == CHOOSE r \in Registers : r.name = reg_name

\* options.arch->address_size, in bits
AddressSize(a) == IF IsSPARC(a) THEN 32 ELSE 64

\* The store of the concrete value of a hint into the register.
ValueStoreItem(reg_name, value) ==
  Item("store_value", reg_name, value, 0, 0, "state")

\* The call of the tainted-type function on the register's value and the
\* store of its result back into the register.
TaintItem(reg_name, pc) == Item("taint", reg_name, pc, 0, 0, "state")

\* FunctionLifter::VisitTypedHintedRegister.  A hint is [reg_name, pointer
\* (type->isPointerTy()), value (<<>> or <<v>>: std::optional)].
VisitTypedHintedRegister(L, block, hint) ==
  LET reg == RegisterByName(hint.reg_name)
      Taint(L1) ==
        IF ~hint.pointer THEN L1
        ELSE AppendTo(L1, block, TaintItem(reg.name, L.curr_inst))
  IN IF reg.enclosing # reg.name
        \/ ~(reg.integer /\ reg.bits = AddressSize(arch))
       THEN L
     ELSE IF options.store_inferred_register_values /\ hint.value # <<>>
       THEN Taint(AppendTo(L, block, ValueStoreItem(reg.name, hint.value[1])))
     ELSE Taint(L)

\* TypeProvider::QueryRegisterStateAtInstruction with the visitor of
\* VisitInstruction: every hint at the instruction is visited, in order.
RECURSIVE QueryRegisterStateAtInstruction(_, _, _)
QueryRegisterStateAtInstruction(L, block, hints) ==
  IF hints = <<>> THEN L
  ELSE QueryRegisterStateAtInstruction(
         VisitTypedHintedRegister(L, block, Head(hints)), block, Tail(hints))

\* The hints the type provider has at the instruction at pc.
HintsAt(pc) == IF Has(register_hints, pc) THEN register_hints[pc] ELSE <<>>

\* FunctionLifter::VisitInstruction.  The ghost field decode_calls counts
\* the calls of DecodeInstructionInto.
VisitInstruction(L, inst, block) ==
  LET L1 == AppendTo([L EXCEPT !.curr_inst = inst.pc], block,
                     LiftItem(inst.pc, FALSE))
      slot == MayHaveDelaySlot(inst)
      delayed == IF slot
                   THEN DecodeInstructionInto(arch, inst.delayed_pc, TRUE).inst
                   ELSE NoDelayedInst
      L2 == IF slot THEN [L1 EXCEPT !.decode_calls = @ + 1] ELSE L1
      Hinted(L3) ==
        IF options.symbolic_register_types
          THEN QueryRegisterStateAtInstruction(L3, block, HintsAt(inst.pc))
          ELSE L3
      Finish(L3) == IF Aborted(L3) THEN L3 ELSE [L3 EXCEPT !.curr_inst = NullInst]
  IN Finish(DispatchCategory(Hinted(L2), inst, delayed, block))

----------------------------------------------------------------------------
(* FunctionLifter::VisitInstructions: one iteration of the work-list loop *)

\* Ghost record of what the last iteration did with the entry it dequeued.
Last(L, entry, block, outcome) ==
  [L EXCEPT !.last = [entry |-> entry, block |-> block, outcome |-> outcome]]

\* Lines 1019-1040 without the test `inst_addr != func_address || from_addr`.
TryTailCallAlways(L, entry, block) ==
  LET inst_addr == entry[1]
      d  == TryGetTargetFunctionType(inst_addr)
      L1 == [L EXCEPT !.resolved = @ \cup {entry}]
      Called(c) ==
        IF Aborted(c.L) THEN [L |-> c.L, done |-> TRUE]
        ELSE IF c.ok
          THEN [L |-> Last(AppendTo(c.L, block, ReturnItem),
                           entry, block, "tail_call"),
                done |-> TRUE]
          ELSE [L |-> c.L, done |-> FALSE]
      Declared(r) ==
        IF Aborted(r.L) THEN [L |-> r.L, done |-> TRUE]
        ELSE Called(TryCallNativeFunction(r.L, d.address, r.func, block))
  IN IF d.has
       THEN Declared(DeclareFunction(L1, [address |-> d.address,
                                          type |-> d.type]))
       ELSE [L |-> L1, done |-> FALSE]

\* Lines 1019-1040: the attempt to lift the edge as a tail call.  `done`
\* tells that the iteration ended here (the `continue`, or an abort).
TryTailCall(L, entry, block) ==
  LET inst_addr == entry[1]
      from_addr == entry[2]
      d  == TryGetTargetFunctionType(inst_addr)
      L1 == [L EXCEPT !.resolved = @ \cup {entry}]
      Called(c) ==
        IF Aborted(c.L) THEN [L |-> c.L, done |-> TRUE]
        ELSE IF c.ok
          THEN [L |-> Last(AppendTo(c.L, block, ReturnItem),
                           entry, block, "tail_call"),
                done |-> TRUE]
          ELSE [L |-> c.L, done |-> FALSE]
      Declared(r) ==
        IF Aborted(r.L) THEN [L |-> r.L, done |-> TRUE]
        ELSE Called(TryCallNativeFunction(r.L, d.address, r.func, block))
  IN IF inst_addr # L.func_address \/ from_addr # 0
       THEN IF d.has
              THEN Declared(DeclareFunction(L1, [address |-> d.address,
                                                 type |-> d.type]))
              ELSE [L |-> L1, done |-> FALSE]
       ELSE [L |-> L, done |-> FALSE]

\* Lines 1042-1067 with a return in place of the branch to the canonical
\* block of an address that was lifted before.
DecodeAndLiftReturnOnRevisit(L, entry, block) ==
  LET inst_addr == entry[1]
  IN IF Has(L.addr_to_block, inst_addr)
       THEN Last(AppendTo(L, block, ReturnItem), entry, block, "branch")
       ELSE
         LET L1 == [L EXCEPT !.addr_to_block = Put(@, inst_addr, block),
                             !.n_decoded = Bump(@, inst_addr),
                             !.decode_calls = @ + 1]
             error_call == MuteStateEscape(TerminatingTailCall("error"))
             Decoded(d) ==
               IF ~d.inst.ok
                 THEN Last(AppendTo(L1, block, error_call),
                           entry, block, "decode_failed")
               ELSE IF d.inst.category \in {"Invalid", "Error"}
                 THEN Last(AppendTo(L1, block, error_call),
                           entry, block, "invalid_or_error")
               ELSE Last(VisitInstruction(L1, d.inst, block),
                         entry, block, "lifted")
         IN Decoded(DecodeInstructionInto(arch, inst_addr, FALSE))

\* Lines 1042-1067 without the lookup in addr_to_block: every dequeued edge
\* that is not a tail call is decoded.
DecodeAndLiftEveryEdge(L, entry, block) ==
  LET inst_addr == entry[1]
      L1 == [L EXCEPT !.addr_to_block = Put(@, inst_addr, block),
                      !.n_decoded = Bump(@, inst_addr),
                      !.decode_calls = @ + 1]
      error_call == MuteStateEscape(TerminatingTailCall("error"))
      Decoded(d) ==
        IF ~d.inst.ok
          THEN Last(AppendTo(L1, block, error_call),
                    entry, block, "decode_failed")
        ELSE IF d.inst.category \in {"Invalid", "Error"}
          THEN Last(AppendTo(L1, block, error_call),
                    entry, block, "invalid_or_error")
        ELSE Last(VisitInstruction(L1, d.inst, block), entry, block, "lifted")
  IN Decoded(DecodeInstructionInto(arch, inst_addr, FALSE))

\* Lines 1042-1067: the canonical block of the address, decoding, dispatch.
\* The ghost field n_decoded counts the non-delayed decodes per address.
DecodeAndLift(L, entry, block) ==
  LET inst_addr == entry[1]
  IN IF Has(L.addr_to_block, inst_addr)
       THEN Last(AppendTo(L, block, BranchItem(L.addr_to_block[inst_addr])),
                 entry, block, "branch")
       ELSE
         LET L1 == [L EXCEPT !.addr_to_block = Put(@, inst_addr, block),
                             !.n_decoded = Bump(@, inst_addr),
                             !.decode_calls = @ + 1]
             error_call == MuteStateEscape(TerminatingTailCall("error"))
             Decoded(d) ==
               IF ~d.inst.ok
                 THEN Last(AppendTo(L1, block, error_call),
                           entry, block, "decode_failed")
               ELSE IF d.inst.category \in {"Invalid", "Error"}
                 THEN Last(AppendTo(L1, block, error_call),
                           entry, block, "invalid_or_error")
               ELSE Last(VisitInstruction(L1, d.inst, block),
                         entry, block, "lifted")
         IN Decoded(DecodeInstructionInto(arch, inst_addr, FALSE))

\* The loop body without the erase of the dequeued entry.
VisitInstructionsStepNoErase(L, entry) ==
  LET inst_addr == entry[1]
      from_addr == entry[2]
      block == L.edge_to_dest_block[<<from_addr, inst_addr>>]
      L1 == [L EXCEPT !.iterations = @ + 1,
                      !.n_dequeued = Bump(@, entry),
                      !.dequeued_nonempty = @ \/ L.blocks[block] # <<>>]
      Visit(t) == IF t.done THEN t.L ELSE DecodeAndLift(t.L, entry, block)
  IN IF L.blocks[block] # <<>>
       THEN Last(L1, entry, block, "skipped")
       ELSE Visit(TryTailCall(L1, entry, block))

\* The body of `while (!edge_work_list.empty())` for the dequeued `entry`.
\* Ghost fields: iterations, n_dequeued (dequeues per entry) and
\* dequeued_nonempty (an entry was dequeued whose block was not empty).
VisitInstructionsStep(L, entry) ==
  LET inst_addr == entry[1]
      from_addr == entry[2]
      block == L.edge_to_dest_block[<<from_addr, inst_addr>>]
      L1 == [L EXCEPT !.edge_work_list = @ \ {entry},
                      !.iterations = @ + 1,
                      !.n_dequeued = Bump(@, entry),
                      !.dequeued_nonempty = @ \/ L.blocks[block] # <<>>]
      Visit(t) == IF t.done THEN t.L ELSE DecodeAndLift(t.L, entry, block)
  IN IF L.blocks[block] # <<>>
       THEN Last(L1, entry, block, "skipped")
       ELSE Visit(TryTailCall(L1, entry, block))

----------------------------------------------------------------------------
(* FunctionLifter::LiftFunction *)

NoLast == [entry |-> <<NullInst, NullInst>>, block |-> NullInst, outcome |-> ""]

\* A freshly constructed FunctionLifter.
NewLifter ==
  [ func_address |-> 0, native_func |-> NullFunc, lifted_func |-> NullFunc,
    curr_inst |-> NullInst,
    edge_work_list |-> {}, edge_to_dest_block |-> EmptyMap,
    addr_to_block |-> EmptyMap, addr_to_decl |-> EmptyMap,
    addr_to_func |-> EmptyMap, func_name_to_address |-> EmptyMap,
    module |-> EmptyMap, blocks |-> EmptyMap, next_block |-> 0,
    returned |-> NullFunc, aborted |-> "",
    n_enqueued |-> EmptyMap, n_dequeued |-> EmptyMap, n_decoded |-> EmptyMap,
    decode_calls |-> 0, iterations |-> 0, resolved |-> {},
    dequeued_nonempty |-> FALSE, last |-> NoLast, lifts |-> <<>>,
    bodies |-> EmptyMap, marshalling |-> EmptyMap,
    semantics_calls |-> EmptyMap, not_inlinable |-> {} ]

LiftedName(func) == <<func[1], func[2], "lifted">>

\* The first statements of LiftFunction without
\* `edge_to_dest_block.clear()`: the edges of the previous lift, and the
\* blocks they name, stay.
ClearPerLiftStateKeepEdges(L, decl) ==
  [L EXCEPT !.addr_to_decl = EmptyMap, !.addr_to_func = EmptyMap,
            !.edge_work_list = {},
            !.addr_to_block = EmptyMap, !.curr_inst = NullInst,
            !.func_address = decl.address,
            !.n_enqueued = EmptyMap, !.n_dequeued = EmptyMap,
            !.n_decoded = EmptyMap, !.iterations = 0, !.resolved = {},
            !.dequeued_nonempty = FALSE, !.last = NoLast,
            !.returned = NullFunc, !.lifts = Append(@, decl)]

\* The first statements of LiftFunction (lines 1470-1478): the per-lift
\* containers are cleared and func_address is set.  The blocks belong to the
\* function being lifted, so a lift starts with none.  The ghost fields
\* count per lift and restart; lifts lists the calls of LiftFunction.
ClearPerLiftState(L, decl) ==
  [L EXCEPT !.addr_to_decl = EmptyMap, !.addr_to_func = EmptyMap,
            !.edge_work_list = {}, !.edge_to_dest_block = EmptyMap,
            !.addr_to_block = EmptyMap, !.curr_inst = NullInst,
            !.func_address = decl.address,
            !.blocks = EmptyMap, !.next_block = 0,
            !.n_enqueued = EmptyMap, !.n_dequeued = EmptyMap,
            !.n_decoded = EmptyMap, !.iterations = 0, !.resolved = {},
            !.dequeued_nonempty = FALSE, !.last = NoLast,
            !.returned = NullFunc, !.lifts = Append(@, decl)]

\* LiftFunction up to the call of VisitInstructions (lines 1468-1546).
\* `entered` tells whether the work-list loop is entered.
LiftFunctionBegin(L, decl) ==
  LET L0 == ClearPerLiftState(L, decl)
      q  == Query(decl.address)
      Link(entry_block, g) ==
        [L |-> AppendTo(g.L, entry_block, BranchItem(g.block)),
         entered |-> TRUE]
      Fill(e) ==
        LET L4 == AppendTo(AppendTo(e.L, e.block, StoreItem("NEXT_PC", 0)),
                           e.block, StoreItem("PC", 0))
        IN Link(e.block, GetOrCreateBlock(L4, L4.func_address))
      Lift(L2, lifted) ==
        IF Aborted(L2) THEN [L |-> L2, entered |-> FALSE]
        ELSE IF L2.module[L2.native_func].body \/ ~HasByte(q.avail)
          THEN [L |-> [L2 EXCEPT !.returned = L2.native_func],
                entered |-> FALSE]
        ELSE IF Has(L2.module, lifted) /\ L2.module[lifted].body
          THEN [L |-> [L2 EXCEPT !.aborted = "CHECK lifted_func->isDeclaration()"],
                entered |-> FALSE]
        ELSE Fill(CreateBlock([L2 EXCEPT
                                 !.lifted_func = lifted,
                                 !.module = Put(@, lifted, [body |-> TRUE])]))
      Declared(d2) ==
        Lift([d2.L EXCEPT !.native_func = d2.func], LiftedName(d2.func))
      Check(L1) ==
        IF Aborted(L1) THEN [L |-> L1, entered |-> FALSE]
        ELSE IF ~IsValidAddress(q.avail) \/ ~IsExecutable(q.perms)
          THEN [L |-> [L1 EXCEPT !.returned = NullFunc], entered |-> FALSE]
        ELSE Declared(GetOrDeclareFunction(L1, decl))
      First(d1) == Check([d1.L EXCEPT !.native_func = d1.func])
  IN First(DeclareFunction(L0, decl))

\* The calls in a function body, by kind of callee: `.lifted` semantic
\* bodies, native wrappers, instruction semantics and intrinsics.
NoCalls == [lifted |-> {}, wrappers |-> {}, semantics |-> {}, intrinsics |-> {}]

\* The calls of the semantic body L.lifted_func: LiftIntoBlock calls the
\* semantics of the instruction, AddCall and AddTerminatingTailCall call an
\* intrinsic, CallFromLiftedBlock calls a native wrapper.
CallsOfLiftedFunc(L) ==
  LET items == UNION { { L.blocks[b][i] : i \in 1..Len(L.blocks[b]) } :
                        b \in DOMAIN L.blocks }
  IN [ lifted |-> {},
       wrappers |-> { <<it.addr, it.t>> : it \in {x \in items : x.op = "call_native"} },
       semantics |-> { it.fn : it \in {x \in items : x.op = "lift"} },
       intrinsics |-> { it.fn : it \in {x \in items : x.op \in {"call", "tailcall"}} } ]

\* The body CallLiftedFunctionFromNativeFunction builds (lines 1323-1401):
\* a call of lifted_func and a call of the memory-escape intrinsic.
WrapperBody(L) ==
  [NoCalls EXCEPT !.lifted = {L.lifted_func},
                  !.intrinsics = {"memory_escape"}]

\* The calls in the body of the function `callee` of the semantics module
\* (field semantics_calls; a function without an entry calls nothing that
\* has a body).
CalleesOf(L, callee) ==
  IF Has(L.semantics_calls, callee) THEN L.semantics_calls[callee] ELSE {}

\* One round of the loop of RecursivelyInlineLiftedFunctionIntoNativeFunction:
\* every call of a callee that has a body and is not noinline is handed to
\* InlineFunction, which replaces it by the callee's body, or fails and
\* leaves the call (the callees in field not_inlinable); the result of
\* InlineFunction is not looked at.  Semantic bodies (always-inline) and
\* instruction semantics have a body; wrappers are noinline, intrinsics
\* declarations.
InlineRound(L, body) ==
  LET inlined == IF body.lifted = {} THEN NoCalls ELSE CallsOfLiftedFunc(L)
  IN [ lifted |-> inlined.lifted,
       wrappers |-> body.wrappers \cup inlined.wrappers,
       semantics |-> inlined.semantics
                       \cup (body.semantics \cap L.not_inlinable)
                       \cup UNION { CalleesOf(L, c) :
                                    c \in body.semantics \ L.not_inlinable },
       intrinsics |-> body.intrinsics \cup inlined.intrinsics ]

\* FunctionDecl::Create(func, arch): the locations of the return address,
\* the parameters and the return values that the calling convention gives
\* a function of this type.
FunctionDeclCreate(type) ==
  [ return_address |-> <<"abi", type, "return_address">>,
    params |-> << <<"abi", type, "param">> >>,
    returns |-> << <<"abi", type, "return">> >> ]

\* FunctionLifter::CallLiftedFunctionFromNativeFunction: gives the wrapper
\* its body, unless it has one or no ABI can be derived from its type.
\* addr_to_decl holds FunctionDecls made by FunctionDecl::Create, named by
\* their type.  The field `marshalling` records for each wrapper the
\* locations (decl.return_address, decl.params, decl.returns) its body
\* stores to and loads from.
CallLiftedFunctionFromNativeFunction(L) ==
  LET cached == Count(L.addr_to_decl, L.func_address) # 0
      decl == IF cached THEN L.addr_to_decl[L.func_address]
              ELSE L.native_func[2]
  IN IF L.module[L.native_func].body THEN L
     ELSE IF ~cached /\ ~FunctionDeclCreateOk(L.native_func[2])
       THEN [L EXCEPT !.addr_to_decl = Put(@, L.func_address, 0)]
     ELSE [L EXCEPT !.addr_to_decl =
                       IF cached THEN @ ELSE Put(@, L.func_address, L.native_func[2]),
                    !.module = Put(@, L.native_func, [body |-> TRUE]),
                    !.bodies = Put(@, L.native_func, WrapperBody(L)),
                    !.marshalling = Put(@, L.native_func,
                                        FunctionDeclCreate(decl))]

\* The loop `for (changed = true; changed; changed = !calls_to_inline.empty())`.
RECURSIVE InlineAllCalls(_, _)
InlineAllCalls(L, body) ==
  IF body.lifted = {} /\ body.semantics = {} THEN body
  ELSE InlineAllCalls(L, InlineRound(L, body))

\* The inlining without the outer loop: the calls found in the wrapper are
\* inlined once.
RecursivelyInlineOneRound(L) ==
  IF Has(L.bodies, L.native_func)
    THEN [L EXCEPT !.bodies[L.native_func] = InlineRound(L, @)]
    ELSE L

\* FunctionLifter::RecursivelyInlineLiftedFunctionIntoNativeFunction.  The
\* field `bodies` holds the calls of each wrapper that has a body; a
\* wrapper that is a declaration has no block to look at.
RecursivelyInlineLiftedFunctionIntoNativeFunction(L) ==
  IF Has(L.bodies, L.native_func)
    THEN [L EXCEPT !.bodies[L.native_func] = InlineAllCalls(L, @)]
    ELSE L

\* LiftFunction after the work-list loop (lines 1551-1559).
LiftFunctionEnd(L) ==
  LET Return(L2) == [L2 EXCEPT !.returned = L.native_func]
  IN Return(RecursivelyInlineLiftedFunctionIntoNativeFunction(
              CallLiftedFunctionFromNativeFunction(L)))

----------------------------------------------------------------------------
(* The inputs of a lift *)

Cell(byte, avail, perms) == [byte |-> byte, avail |-> avail, perms |-> perms]

Code(cat, operand) == Cell(Enc(cat, operand), "Available", "RX")

\* The addresses the instruction at `a` can pass control to within the
\* function, before redirection.
Successors(a) ==
  LET q == Query(a)
      cat == Categories[(q.byte \div 16) + 1]
  IN IF ~AccumulateInstByte(q) THEN {}
     ELSE CASE cat \in {"Normal", "NoOp"} -> {a + 1}
            [] cat = "DirectJump" -> {q.byte % 8}
            [] cat = "ConditionalBranch" -> {q.byte % 8, a + 1}
            [] cat \in {"Error", "Invalid", "FunctionReturn", "IndirectJump",
                        "AsyncHyperCall"} -> {}
            [] OTHER -> {a + 1}

\* The addresses some edge of the function can lead to, starting from S.
RECURSIVE Reachable(_)
Reachable(S) ==
  LET T == S \cup UNION { {GetRedirection(t) : t \in Successors(a)} : a \in S }
  IN IF T = S THEN S ELSE Reachable(T)

Unmapped == Cell(0, "Unavailable", "Unknown")

\* The common memory cells: executable code that falls through, returns,
\* jumps or branches, and unmapped bytes.
CommonCells ==
  { Code("Normal", 0), Code("FunctionReturn", 0), Unmapped }
  \cup { Code(c, t) : c \in {"DirectJump", "ConditionalBranch"}, t \in Addr }

\* The rarer ones: error and undecodable instructions, a conditional return,
\* and bytes that are present but not executable.
RareCells ==
  { Code("Error", 0), Code("Invalid", 0), Code("ConditionalFunctionReturn", 0),
    Cell(Enc("Normal", 0), "Available", "RW") }

\* Redirection tables with at most one entry (these are idempotent).
OneRedirection ==
  {EmptyMap}
  \cup { [x \in {p[1]} |-> p[2]] : p \in {q \in Addr \X Addr : q[1] # q[2]} }

\* Declaration tables with at most one declared function.
OneDeclaration(types) ==
  { [x \in Addr |-> 0] }
  \cup { [x \in Addr |-> IF x = a THEN t ELSE 0] : a \in Addr, t \in types }

\* The EntityLifterImpl after construction: an empty target module
\* (options.module), no entity at any address, and no LiftEntity call.
NewContext == [module |-> EmptyMap, entities |-> EmptyMap, calls |-> <<>>]

\* LifterOptions with the flags about register hints and the symbolic stack
\* pointer off.
DefaultOptions ==
  [ symbolic_register_types |-> FALSE,
    store_inferred_register_values |-> FALSE,
    symbolic_stack_pointer |-> FALSE ]

\* A type provider without register type hints.
NoRegisterHints == EmptyMap

\* No call of LoadFunctionReturnAddress was recorded.
NoReturnLog == [called |-> FALSE]

NoDecodeLog ==
  [arch |-> "", addr |-> 0, queried |-> <<>>, nbytes |-> 0, bytes |-> <<>>]

\* A lift reads the providers only at addresses its edges lead to.  The
\* inputs explored leave everything else at its default: no byte, no
\* redirection and no declaration where the lift cannot look.
LiveMemory(reach) == \A a \in Addr \ reach : memory[a] = Unmapped

LiveRedirections(named) == DOMAIN redirections \subseteq named

LiveDeclarations(live) == \A a \in Addr : type_provider[a] # 0 => a \in live

NamedBy(reach) == UNION { Successors(a) : a \in reach }

\* The build's treatment of a null function matters only to inputs that
\* declare a function where no executable byte is.
NullDerefMatters ==
  \E a \in Addr :
    /\ type_provider[a] # 0
    /\ \E b \in {a, GetRedirection(a)} :
         ~IsValidAddress(Query(b).avail) \/ ~IsExecutable(Query(b).perms)

\* The function lifted starts at one of the first two addresses, so that
\* address 0 is the entry in some inputs and an ordinary address in others.
EntryDecls == [address : {0, 1}, type : {1}]

NoDeclarations == [x \in Addr |-> 0]

\* Control-flow shapes: every common cell and at most one rare cell, no
\* redirection and no declared function.
InitShapes ==
  /\ redirections = EmptyMap
  /\ type_provider = NoDeclarations
  /\ null_deref = "trap"
  /\ memory \in [Addr -> CommonCells \cup RareCells]
  /\ Cardinality({a \in Addr : memory[a] \in RareCells}) <= 1
  /\ entry_decl \in EntryDecls
  /\ LiveMemory(Reachable({entry_decl.address}))

\* Target resolution: straight-line code and jumps, with a redirection, a
\* declared function, or both.
InitTargets ==
  /\ memory \in [Addr -> CommonCells \ {Code("ConditionalBranch", t) : t \in Addr}]
  /\ entry_decl \in EntryDecls
  /\ redirections \in OneRedirection
  /\ LiveMemory(Reachable({entry_decl.address}))
  /\ LiveRedirections(NamedBy(Reachable({entry_decl.address})))
  /\ type_provider \in OneDeclaration({1})
  /\ redirections # EmptyMap \/ type_provider # NoDeclarations
  /\ LiveDeclarations(Reachable({entry_decl.address})
                        \cup NamedBy(Reachable({entry_decl.address})))
  /\ null_deref \in IF NullDerefMatters THEN NullDerefOutcomes ELSE {"trap"}

\* Branches into declared functions: a conditional branch at the entry and
\* nowhere else, one declared function, no redirection.
InitBranchTargets ==
  /\ redirections = EmptyMap
  /\ entry_decl \in EntryDecls
  /\ memory \in [Addr -> {Code("Normal", 0), Code("FunctionReturn", 0), Unmapped}
                            \cup {Code("ConditionalBranch", t) : t \in Addr}]
  /\ \A a \in Addr : a = entry_decl.address <=>
                         memory[a] \notin {Code("Normal", 0),
                                           Code("FunctionReturn", 0), Unmapped}
  /\ LiveMemory(Reachable({entry_decl.address}))
  /\ type_provider \in OneDeclaration({1}) \ {NoDeclarations}
  /\ LiveDeclarations(Reachable({entry_decl.address})
                        \cup NamedBy(Reachable({entry_decl.address})))
  /\ null_deref \in IF NullDerefMatters THEN NullDerefOutcomes ELSE {"trap"}

Init ==
  /\ arch = "x86"
  /\ max_inst_size = 0
  /\ decode_log = NoDecodeLog
  /\ return_log = NoReturnLog
  /\ context = NewContext
  /\ options = DefaultOptions
  /\ register_hints = NoRegisterHints
  /\ InitShapes \/ InitTargets \/ InitBranchTargets
  /\ fl = NewLifter
  /\ phase = "start"

----------------------------------------------------------------------------
(* Actions *)

PhaseAfter(L, next) == IF Aborted(L) THEN "abort" ELSE next

\* The static of DecodeInstructionInto after a step of the instance.
StaticAfter(L) ==
  IF L.decode_calls > fl.decode_calls THEN StaticMaxInstSize(arch)
  ELSE max_inst_size

\* LiftFunction(decl) is called and runs up to the work-list loop.
CallLiftFunction ==
  /\ phase = "start"
  /\ LET Begun(r) ==
           /\ fl' = r.L
           /\ phase' = PhaseAfter(r.L, IF r.entered THEN "visit" ELSE "done")
           /\ max_inst_size' = StaticAfter(r.L)
     IN Begun(LiftFunctionBegin(fl, entry_decl))
  /\ UNCHANGED <<inputs, logs, context>>

\* One iteration of the loop of VisitInstructions.  edge_work_list.begin()
\* is an element of the work list; which one depends on the container.
VisitInstructionsIteration ==
  /\ phase = "visit"
  /\ \E entry \in fl.edge_work_list :
       LET Stepped(L) ==
             /\ fl' = L
             /\ phase' = PhaseAfter(L, "visit")
             /\ max_inst_size' = StaticAfter(L)
       IN Stepped(VisitInstructionsStep(fl, entry))
  /\ UNCHANGED <<inputs, logs, context>>

\* The work list is empty: the loop exits and LiftFunction finishes.
FinishLiftFunction ==
  /\ phase = "visit"
  /\ fl.edge_work_list = {}
  /\ fl' = LiftFunctionEnd(fl)
  /\ phase' = "done"
  /\ UNCHANGED <<inputs, max_inst_size, logs, context>>

Next ==
  \/ CallLiftFunction
  \/ VisitInstructionsIteration
  \/ FinishLiftFunction

Spec == Init /\ [][Next]_vars

----------------------------------------------------------------------------
(* Properties of the work-list loop *)

EdgeKeys(L) == DOMAIN L.edge_to_dest_block

EdgeBlocks(L) == { L.edge_to_dest_block[k] : k \in EdgeKeys(L) }

\* LiftFunction has created the semantic body and entered VisitInstructions.
LoopEntered == fl.lifted_func # NullFunc

\* C1: once LiftFunction has entered the work-list loop, the loop runs at
\* most one iteration per edge key discovered, of which there are finitely
\* many, and it only ever stops by finding the work list empty: the process
\* is either still in the loop or past it with nothing left in the list.
C1_WorkListLoopTerminates ==
  LoopEntered =>
    /\ phase \in {"visit", "done"}
    /\ phase = "done" => fl.edge_work_list = {}
    /\ fl.iterations <= Cardinality(EdgeKeys(fl))
    /\ Cardinality(EdgeKeys(fl)) <= (MaxAddr + 2) * (MaxAddr + 2)

\* C2: within one lift every edge key (from_pc, target) has exactly one
\* block: a key keeps the block its first request allocated, the pair
\* (target, from_pc) was handed to the work list exactly once however often
\* the key was requested, and different keys have different blocks.
C2_OneBlockPerEdgeKey ==
  [][ /\ \A k \in EdgeKeys(fl) :
           fl'.lifted_func = fl.lifted_func =>
             /\ k \in EdgeKeys(fl')
             /\ fl'.edge_to_dest_block[k] = fl.edge_to_dest_block[k]
      /\ \A k \in EdgeKeys(fl') :
           /\ fl'.edge_to_dest_block[k] \in DOMAIN fl'.blocks
           /\ Count(fl'.n_enqueued, <<k[2], k[1]>>) = 1
      /\ \A k1, k2 \in EdgeKeys(fl') :
           k1 # k2 => fl'.edge_to_dest_block[k1] # fl'.edge_to_dest_block[k2]
      /\ DOMAIN fl'.n_enqueued = { <<k[2], k[1]>> : k \in EdgeKeys(fl') }
    ]_vars

\* A key was requested twice (both sides of a conditional branch lead to the
\* same address) and one address is the target of two predecessors.
C2_Witness ==
  /\ \E b1, b2 \in DOMAIN fl.blocks \ EdgeBlocks(fl) :
       /\ b1 # b2
       /\ Len(fl.blocks[b1]) = 1
       /\ fl.blocks[b1] = fl.blocks[b2]
       /\ fl.blocks[b1][1].op = "br"
       /\ fl.blocks[b1][1].t \in EdgeBlocks(fl)
  /\ \E k1, k2 \in EdgeKeys(fl) : k1[1] # k2[1] /\ k1[2] = k2[2]

\* C3: each (inst_addr, from_addr) pair is handed to the work list at most
\* once and dequeued at most once, the block of a dequeued entry is empty
\* when it is dequeued, the iteration that dequeues it fills it, and a block
\* that has been filled is not written again.
C3_EachEdgeFilledOnce ==
  [][ /\ \A e \in DOMAIN fl'.n_enqueued : fl'.n_enqueued[e] <= 1
      /\ \A e \in DOMAIN fl'.n_dequeued : fl'.n_dequeued[e] <= 1
      /\ ~fl'.dequeued_nonempty
      /\ \A k \in EdgeKeys(fl') :
           \/ <<k[2], k[1]>> \in fl'.edge_work_list
           \/ Aborted(fl')
           \/ fl'.blocks[fl'.edge_to_dest_block[k]] # <<>>
      /\ \A k \in EdgeKeys(fl) :
           LET b == fl.edge_to_dest_block[k]
           IN (fl'.lifted_func = fl.lifted_func /\ fl.blocks[b] # <<>>)
                => fl'.blocks[b] = fl.blocks[b]
    ]_vars

\* The loop has finished after dequeuing three edges or more, one of them an
\* edge to an address that already had its block.
C3_Witness ==
  /\ phase = "done"
  /\ Cardinality(DOMAIN fl.n_dequeued) >= 3
  /\ \E k \in EdgeKeys(fl) :
       /\ Has(fl.addr_to_block, k[2])
       /\ fl.edge_to_dest_block[k] # fl.addr_to_block[k[2]]
       /\ fl.blocks[fl.edge_to_dest_block[k]] # <<>>

----------------------------------------------------------------------------
(* The result of the work-list loop, up to the names of the blocks *)

KeyOfBlock(L, b) == CHOOSE k \in EdgeKeys(L) : L.edge_to_dest_block[k] = b

\* Block b with every block it branches to named by the edge key it is the
\* block of, or, for the taken/not-taken blocks of a conditional visitor,
\* by its own content.
RECURSIVE BlockShape(_, _)
BlockRef(L, b) ==
  IF b \in EdgeBlocks(L)
    THEN [edge |-> <<KeyOfBlock(L, b)>>, body |-> <<>>]
    ELSE [edge |-> <<>>, body |-> BlockShape(L, b)]

BlockShape(L, b) ==
  [ i \in 1..Len(L.blocks[b]) |->
      LET it == L.blocks[b][i]
          none == [edge |-> <<>>, body |-> <<>>]
      IN [ item |-> IF it.op \in {"br", "condbr"}
                      THEN [it EXCEPT !.t = 0, !.f = 0] ELSE it,
           t |-> IF it.op \in {"br", "condbr"} THEN BlockRef(L, it.t) ELSE none,
           f |-> IF it.op = "condbr" THEN BlockRef(L, it.f) ELSE none ] ]

\* What control finds at the destination of edge k: the single lifted copy
\* of the instruction at the target address (reached in the edge's own
\* block or by a branch to it), or what the edge's block holds instead (the
\* call into the resolved function and the return).
Behaviour(L, k) ==
  LET b  == L.edge_to_dest_block[k]
      to == k[2]
  IN IF /\ Has(L.addr_to_block, to)
        /\ \/ b = L.addr_to_block[to]
           \/ L.blocks[b] = <<BranchItem(L.addr_to_block[to])>>
       THEN [inst |-> TRUE, code |-> BlockShape(L, L.addr_to_block[to])]
       ELSE [inst |-> FALSE, code |-> BlockShape(L, b)]

LoopResult(L) ==
  [ keys |-> EdgeKeys(L),
    decoded |-> DOMAIN L.n_decoded,
    behaviour |-> [k \in EdgeKeys(L) |-> Behaviour(L, k)] ]

\* The entry std::set<std::pair<uint64_t, uint64_t>>::begin() yields.
Least(S) ==
  CHOOSE e \in S : \A x \in S : e[1] < x[1] \/ (e[1] = x[1] /\ e[2] <= x[2])

\* The loop run to its end, always dequeuing the least entry.
RECURSIVE RunInOrder(_)
RunInOrder(L) ==
  IF Aborted(L) \/ L.edge_work_list = {} THEN L
  ELSE RunInOrder(VisitInstructionsStep(L, Least(L.edge_work_list)))

ReferenceRun == RunInOrder(LiftFunctionBegin(NewLifter, entry_decl).L)

\* C4: whatever the order in which the entries were dequeued, a loop that
\* has ended has the edge keys, the decoded addresses and, edge by edge, the
\* behaviour at the destination that the run in ascending order has; and it
\* ends by a process abort exactly when that run does.
C4_DequeueOrderIrrelevant ==
  (LoopEntered /\ phase \in {"done", "abort"}) =>
    /\ (phase = "abort") = Aborted(ReferenceRun)
    /\ phase = "done" => LoopResult(fl) = LoopResult(ReferenceRun)

\* A finished loop whose canonical block of some address is not the one the
\* ascending order makes canonical: the order did differ, at an address
\* reached over two edges.
C4_Witness ==
  /\ phase = "done"
  /\ \E a \in DOMAIN fl.addr_to_block :
       /\ a \in DOMAIN ReferenceRun.addr_to_block
       /\ KeyOfBlock(fl, fl.addr_to_block[a])
            # KeyOfBlock(ReferenceRun, ReferenceRun.addr_to_block[a])

----------------------------------------------------------------------------
(* Target resolution *)

NoFunctionDecl == [has |-> FALSE, type |-> 0, address |-> 0]

\* The resolution policy as stated: the FunctionDecl at the redirected
\* address, else the one at the address itself when it was redirected, else
\* none; a FunctionDecl found carries the redirected address.
ReferenceTargetFunctionType(a) ==
  LET redirected == GetRedirection(a)
  IN IF TryGetFunctionType(redirected) # 0
       THEN [has |-> TRUE, type |-> TryGetFunctionType(redirected),
             address |-> redirected]
     ELSE IF redirected # a /\ TryGetFunctionType(a) # 0
       THEN [has |-> TRUE, type |-> TryGetFunctionType(a),
             address |-> redirected]
     ELSE NoFunctionDecl

\* C5: for every address a, TryGetTargetFunctionType(a) returns what the
\* reference policy returns, with the redirected address in the address
\* field; it asks the type provider at the redirected address first, and at
\* a itself only when a is redirected and the first query found nothing.
C5_TargetFunctionTypeIsReference ==
  \A a \in 0..(MaxAddr + 1) :
    LET r == TryGetTargetFunctionType(a)
        redirected == GetRedirection(a)
    IN /\ [has |-> r.has, type |-> r.type, address |-> r.address]
            = ReferenceTargetFunctionType(a)
       /\ r.queried[1] = redirected
       /\ Len(r.queried) \in {1, 2}
       /\ Len(r.queried) = 2 <=>
            (redirected # a /\ TryGetFunctionType(redirected) = 0)
       /\ Len(r.queried) = 2 => r.queried[2] = a

\* The lifter has resolved an edge, on inputs in which some address is
\* redirected and has a FunctionDecl only at the address itself.
C5_Witness ==
  /\ fl.resolved # {}
  /\ \E a \in Addr :
       /\ GetRedirection(a) # a
       /\ TryGetFunctionType(GetRedirection(a)) = 0
       /\ TryGetFunctionType(a) # 0
       /\ TryGetTargetFunctionType(a).address = GetRedirection(a)

----------------------------------------------------------------------------
(* Tail calls and canonical blocks *)

\* The entry a step of the loop has dequeued.
Dequeued == CHOOSE e \in DOMAIN fl'.n_dequeued :
              Count(fl'.n_dequeued, e) > Count(fl.n_dequeued, e)

IsDequeueStep == fl'.iterations = fl.iterations + 1

\* The typed call can be built for FunctionDecl d: its address is valid
\* executable memory and its type has an ABI.
Callable(d) ==
  /\ d.has
  /\ IsValidAddress(Query(d.address).avail)
  /\ IsExecutable(Query(d.address).perms)
  /\ FunctionDeclCreateOk(d.type)

\* C6: an iteration that dequeues an edge other than the entry (func_address,
\* 0) whose address resolves to a callable FunctionDecl puts the call of that
\* function and a return into the edge's block, decodes nothing, records
\* nothing in addr_to_block and enqueues nothing; an edge lifted as a tail
\* call holds a call and a return; resolution is attempted for every dequeued
\* edge but (func_address, 0), so also for edges back to func_address.
C6_TailCallEdges ==
  [][ IsDequeueStep =>
        LET e == Dequeued
            b == fl.edge_to_dest_block[<<e[2], e[1]>>]
            d == TryGetTargetFunctionType(e[1])
            is_entry == e[1] = fl.func_address /\ e[2] = 0
        IN /\ (e \in fl'.resolved) = ~is_entry
           /\ (~is_entry /\ Callable(d)) =>
                /\ fl'.last = [entry |-> e, block |-> b, outcome |-> "tail_call"]
                /\ fl'.blocks[b] =
                     <<NativeCallItem(<<d.address, d.type>>), ReturnItem>>
           /\ fl'.last.outcome = "tail_call" =>
                /\ ~is_entry /\ d.has
                /\ Len(fl'.blocks[b]) = 2
                /\ fl'.blocks[b][1].op = "call_native"
                /\ fl'.blocks[b][1].addr = d.address
                /\ fl'.blocks[b][2] = ReturnItem
                /\ fl'.n_decoded = fl.n_decoded
                /\ fl'.decode_calls = fl.decode_calls
                /\ fl'.addr_to_block = fl.addr_to_block
                /\ fl'.n_enqueued = fl.n_enqueued
                /\ fl'.edge_work_list = fl.edge_work_list \ {e}
                /\ fl'.edge_to_dest_block = fl.edge_to_dest_block
    ]_vars

\* An edge back to func_address from a non-zero predecessor has been lifted
\* as a call of the function itself followed by a return.
C6_Witness ==
  /\ fl.last.outcome = "tail_call"
  /\ fl.last.entry[1] = fl.func_address
  /\ fl.last.entry[2] # 0
  /\ fl.blocks[fl.last.block] = <<NativeCallItem(fl.native_func), ReturnItem>>
  /\ ~Has(fl.addr_to_block, fl.last.entry[1]) \/ fl.addr_to_block[fl.last.entry[1]] # fl.last.block

\* C7: an address is decoded as a non-delayed instruction at most once per
\* lift; the edge whose iteration decodes it becomes its canonical block in
\* addr_to_block for good, and an iteration that dequeues an edge to an
\* address with a canonical block (and no tail call) only puts a branch to
\* that block into the edge's block: no decode, nothing enqueued.
C7_DecodedAtMostOnce ==
  [][ /\ \A a \in DOMAIN fl'.n_decoded : fl'.n_decoded[a] = 1
      /\ DOMAIN fl'.n_decoded = DOMAIN fl'.addr_to_block
      /\ IsDequeueStep =>
           LET e == Dequeued
               b == fl.edge_to_dest_block[<<e[2], e[1]>>]
           IN /\ \A a \in DOMAIN fl.addr_to_block :
                   /\ a \in DOMAIN fl'.addr_to_block
                   /\ fl'.addr_to_block[a] = fl.addr_to_block[a]
              /\ \A a \in DOMAIN fl'.addr_to_block \ DOMAIN fl.addr_to_block :
                   a = e[1] /\ fl'.addr_to_block[a] = b
              /\ (Has(fl.addr_to_block, e[1]) /\ ~Aborted(fl')
                    /\ fl'.last.outcome # "tail_call") =>
                   /\ fl'.last = [entry |-> e, block |-> b, outcome |-> "branch"]
                   /\ fl'.blocks[b] = <<BranchItem(fl.addr_to_block[e[1]])>>
                   /\ fl'.decode_calls = fl.decode_calls
                   /\ fl'.n_enqueued = fl.n_enqueued
                   /\ fl'.edge_work_list = fl.edge_work_list \ {e}
    ]_vars

\* The loop has dequeued a second edge to an address decoded before.
C7_Witness ==
  /\ fl.last.outcome = "branch"
  /\ Count(fl.n_decoded, fl.last.entry[1]) = 1
  /\ fl.addr_to_block[fl.last.entry[1]] # fl.last.block

\* C8: in every block of the lifted function, a terminating tail call of the
\* error intrinsic or of the function-return intrinsic has an undefined
\* value as its state-pointer argument.
C8_StateEscapeMuted ==
  \A b \in DOMAIN fl.blocks :
    \A i \in 1..Len(fl.blocks[b]) :
      LET it == fl.blocks[b][i]
      IN (it.op = "tailcall" /\ it.fn \in {"error", "function_return"})
           => it.state = "undef"

\* A finished lift that holds a function-return tail call on the taken side
\* of a conditional return and an error tail call for an undecodable
\* address.
C8_Witness ==
  /\ phase = "done"
  /\ \E b \in DOMAIN fl.blocks \ EdgeBlocks(fl) :
       /\ fl.blocks[b] # <<>>
       /\ fl.blocks[b][Len(fl.blocks[b])].fn = "function_return"
  /\ \E b \in EdgeBlocks(fl) :
       /\ Len(fl.blocks[b]) = 1
       /\ fl.blocks[b][1].fn = "error"

----------------------------------------------------------------------------
(* Decode failures *)

\* Decoding at address a fails or yields an invalid instruction.
DecodeFails(a) ==
  LET d == DecodeInstructionInto(arch, a, FALSE).inst
  IN ~d.ok \/ d.category = "Invalid"

MutedErrorCall == [TerminatingTailCall("error") EXCEPT !.state = "undef"]

\* The addresses at which this lift has seen decoding fail.
FailedAddresses(L) == { a \in DOMAIN L.n_decoded : DecodeFails(a) }

\* What an iteration does that dequeues edge e and finds no decodable
\* instruction: one muted error tail call in the edge's block, nothing
\* enqueued, every other block as it was.
FailureIsContained ==
  IsDequeueStep =>
    LET e == Dequeued
        b == fl.edge_to_dest_block[<<e[2], e[1]>>]
    IN (e[1] \in DOMAIN fl'.n_decoded \ DOMAIN fl.n_decoded /\ DecodeFails(e[1]))
         => /\ fl'.blocks[b] = <<MutedErrorCall>>
            /\ fl'.n_enqueued = fl.n_enqueued
            /\ fl'.edge_work_list = fl.edge_work_list \ {e}
            /\ DOMAIN fl'.blocks = DOMAIN fl.blocks
            /\ \A c \in DOMAIN fl.blocks \ {b} : fl'.blocks[c] = fl.blocks[c]

\* A failed address is decoded once; the other edges to it branch to its
\* block.
FailureIsNotRetried(L) ==
  \A a \in FailedAddresses(L) :
    /\ L.n_decoded[a] = 1
    /\ L.blocks[L.addr_to_block[a]] = <<MutedErrorCall>>
    /\ \A k \in EdgeKeys(L) :
         LET b == L.edge_to_dest_block[k]
         IN (k[2] = a /\ L.blocks[b] # <<>> /\ b # L.addr_to_block[a])
              => L.blocks[b] = <<BranchItem(L.addr_to_block[a])>>

\* After a decode failure the lift goes on to its end and gives the
\* function its wrapper body.
LiftCompletesAfterFailure(L, ph) ==
  FailedAddresses(L) # {} =>
    /\ ph \in {"visit", "done"}
    /\ ph = "done" =>
         /\ L.returned = L.native_func
         /\ L.returned # NullFunc
         /\ L.module[L.returned].body

\* C9: when decoding fails at a dequeued address or yields an invalid
\* instruction, the edge's block gets exactly one muted error tail call, no
\* successor is enqueued, the blocks filled before are unchanged, the
\* address is not decoded again (later edges to it branch to that block),
\* and the lift still completes and produces the wrapper.
C9_DecodeFailureIsLocal ==
  [][ /\ FailureIsContained
      /\ FailureIsNotRetried(fl')
      /\ LiftCompletesAfterFailure(fl', phase')
    ]_vars

\* The same without the completion of the lift.
C9_DecodeFailureLocalEffects ==
  [][ FailureIsContained /\ FailureIsNotRetried(fl') ]_vars

----------------------------------------------------------------------------
(* DecodeInstructionInto called on the lifter instances of one process *)

\* The memory image of SpecDecode covers addresses 0..MaxDecodeAddr.
MaxDecodeAddr == 17

\* The architectures of the lifter instances that exist in the process.
Archs == {"x86", "sparc"}

\* What ends the run of code bytes that starts at address 0.
Stoppers ==
  { Unmapped,
    Cell(Enc("Normal", 0), "Unknown", "RX"),
    Cell(Enc("Normal", 0), "Available", "R"),
    Cell(Enc("Normal", 0), "Available", "RW") }

\* Images with n code bytes from address 0 on, then a byte that ends the
\* run, then present bytes again: writable code, or bytes of unknown
\* permissions.
DecodeImages ==
  { [a \in 0..MaxDecodeAddr |->
       IF a = n THEN stop
       ELSE IF a < n THEN Code("Normal", 0)
       ELSE Cell(Enc("NoOp", 0), "Available", perms)] :
    n \in 0..(MaxDecodeAddr + 1), stop \in Stoppers,
    perms \in {"RWX", "Unknown"} }

InitDecode ==
  /\ memory \in DecodeImages
  /\ redirections = EmptyMap
  /\ type_provider = [x \in 0..MaxDecodeAddr |-> 0]
  /\ arch = "x86"
  /\ entry_decl = [address |-> 0, type |-> 1]
  /\ null_deref = "trap"
  /\ fl = NewLifter
  /\ phase = "decode"
  /\ max_inst_size = 0
  /\ decode_log = NoDecodeLog
  /\ return_log = NoReturnLog
  /\ context = NewContext
  /\ options = DefaultOptions
  /\ register_hints = NoRegisterHints

\* The lifter instance configured for architecture a calls
\* DecodeInstructionInto(addr, is_delayed, &inst).
CallDecodeInstructionInto ==
  \E a \in Archs, addr \in 0..MaxDecodeAddr, is_delayed \in BOOLEAN :
    LET r == DecodeInstructionInto(a, addr, is_delayed)
    IN /\ arch' = a
       /\ max_inst_size' = StaticMaxInstSize(a)
       /\ decode_log' = [arch |-> a, addr |-> addr, queried |-> r.queried,
                         nbytes |-> Len(r.bytes), bytes |-> r.bytes]
       /\ UNCHANGED <<memory, redirections, type_provider, entry_decl,
                      null_deref, options, register_hints, fl, phase,
                      return_log, context>>

NextDecode == CallDecodeInstructionInto

SpecDecode == InitDecode /\ [][NextDecode]_vars

\* C10: a call of DecodeInstructionInto(addr, ...) on any lifter instance
\* queries memory only at addr .. addr + MaxInstructionSize(arch of that
\* instance) - 1 and hands the decoder at most that many bytes, also when
\* instances of other architectures have decoded before.
C10_DecodeWindowBounded ==
  decode_log.arch # "" =>
    LET max == MaxInstructionSize(decode_log.arch)
    IN /\ \A i \in 1..Len(decode_log.queried) :
            decode_log.queried[i] \in
              decode_log.addr..(decode_log.addr + max - 1)
       /\ Len(decode_log.queried) <= max
       /\ decode_log.nbytes <= max

----------------------------------------------------------------------------
(* The decode buffer *)

\* The number of bytes from addr on that pass the inclusion test of
\* DecodeInstructionInto, counted up to max.
LongestPrefix(addr, max) ==
  CHOOSE k \in 0..max :
    /\ \A i \in 0..(k - 1) : AccumulateInstByte(Query(addr + i))
    /\ k = max \/ ~AccumulateInstByte(Query(addr + k))

\* The last call handed the decoder the longest passing prefix capped at
\* max: the bytes of the first n addresses, having queried those and, when
\* the prefix ends before the cap, the address of the byte that ended it.
BufferIsLongestPrefix(max) ==
  LET n == LongestPrefix(decode_log.addr, max)
      q == IF n < max THEN n + 1 ELSE n
  IN /\ decode_log.bytes = [i \in 1..n |-> Query(decode_log.addr + i - 1).byte]
     /\ decode_log.queried = [i \in 1..q |-> decode_log.addr + i - 1]

\* C11: the buffer DecodeInstructionInto hands to the decoder is exactly the
\* longest prefix of addr, addr + 1, ..., capped at the maximum instruction
\* size of the architecture, in which every byte passes the inclusion test;
\* the first byte that fails is queried but not included and no address
\* after it is queried.
C11_BufferIsLongestPrefix ==
  decode_log.arch # "" =>
    BufferIsLongestPrefix(MaxInstructionSize(decode_log.arch))

\* The same with the cap the code applies, the value of the static.
C11_PrefixUnderStaticCap ==
  decode_log.arch # "" => BufferIsLongestPrefix(max_inst_size)

\* The addresses whose bytes the last call put in the decode buffer.
UsedAsCode ==
  { decode_log.addr + i - 1 : i \in 1..Len(decode_log.bytes) }

\* C12: a byte is used as code only if its availability is Available and
\* its permissions are RX or RWX.
C12_OnlyExecutableBytesAreCode ==
  \A a \in UsedAsCode :
    /\ Query(a).avail = "Available"
    /\ Query(a).perms \in {"RX", "RWX"}

\* The part of it the code does keep: no absent byte and no byte that is
\* known to be readable or writable only is used as code.
C12_NoAbsentOrDataByteIsCode ==
  \A a \in UsedAsCode :
    /\ Query(a).avail = "Available"
    /\ Query(a).perms \notin {"R", "RW"}

----------------------------------------------------------------------------
(* Process aborts *)

\* C13: no call of LiftFunction reaches a process abort, whatever the
\* providers answer: no CHECK fails and no null function is dereferenced.
C13_NoProcessAbort == phase # "abort" /\ ~Aborted(fl)

----------------------------------------------------------------------------
(* Several lifts on one lifter instance *)

\* Code that returns, falls through, jumps or calls; unmapped bytes; a
\* byte that is present but not executable; and an executable address whose
\* byte the provider does not have.
ReuseCells ==
  { Code("FunctionReturn", 0), Code("Normal", 0), Unmapped,
    Cell(Enc("FunctionReturn", 0), "Available", "RW"),
    Cell(Enc("FunctionReturn", 0), "Unknown", "RX") }
  \cup { Code(c, t) : c \in {"DirectJump", "DirectFunctionCall"}, t \in Addr }

\* The functions at addresses 0 and 1 are both declared, or nothing is.
EntriesDeclared == [x \in Addr |-> IF x \in {0, 1} THEN 1 ELSE 0]

InitReuse ==
  /\ arch = "x86"
  /\ max_inst_size = 0
  /\ decode_log = NoDecodeLog
  /\ return_log = NoReturnLog
  /\ context = NewContext
  /\ options = DefaultOptions
  /\ register_hints = NoRegisterHints
  /\ redirections = EmptyMap
  /\ null_deref = "trap"
  /\ entry_decl \in EntryDecls
  /\ memory \in [Addr -> ReuseCells]
  /\ LiveMemory(Reachable({0, 1}))
  /\ type_provider \in {NoDeclarations, EntriesDeclared}
  /\ fl = NewLifter
  /\ phase = "start"

\* LiftFunction(d) is called on the instance after an earlier call has
\* returned, for a function d that was not lifted before.
CallLiftFunctionAgain ==
  /\ phase = "done"
  /\ \E d \in EntryDecls :
       /\ \A i \in 1..Len(fl.lifts) : fl.lifts[i] # d
       /\ entry_decl' = d
       /\ LET Begun(r) ==
                /\ fl' = r.L
                /\ phase' = PhaseAfter(r.L, IF r.entered THEN "visit" ELSE "done")
                /\ max_inst_size' = StaticAfter(r.L)
          IN Begun(LiftFunctionBegin(fl, d))
  /\ UNCHANGED <<memory, redirections, type_provider, arch, null_deref,
                 options, register_hints, logs, context>>

NextReuse ==
  \/ CallLiftFunction
  \/ VisitInstructionsIteration
  \/ FinishLiftFunction
  \/ CallLiftFunctionAgain

SpecReuse == InitReuse /\ [][NextReuse]_vars

\* The step is a call of LiftFunction.
IsLiftFunctionCall == Len(fl'.lifts) = Len(fl.lifts) + 1

\* The containers the claim lists, without the reverse map of names.
ContainersEmpty(L) ==
  /\ L.edge_to_dest_block = EmptyMap
  /\ L.edge_work_list = {}
  /\ L.addr_to_block = EmptyMap
  /\ L.addr_to_decl = EmptyMap
  /\ L.addr_to_func = EmptyMap
  /\ L.curr_inst = NullInst

\* C14: at the start of every LiftFunction call, once its first statements
\* have run, all per-lift state is empty whatever earlier lifts left behind:
\* the edge->block map, the work list, the address->block map, the
\* address->FunctionDecl cache, the address->Function cache and the
\* function-name->address reverse map have no entry, and the
\* current-instruction pointer is null.
C14_PerLiftStateCleared ==
  [][ IsLiftFunctionCall =>
        /\ ContainersEmpty(ClearPerLiftState(fl, entry_decl'))
        /\ ClearPerLiftState(fl, entry_decl').func_name_to_address = EmptyMap
    ]_vars

\* What the code does clear.
C14_ContainersCleared ==
  [][ IsLiftFunctionCall =>
        ContainersEmpty(ClearPerLiftState(fl, entry_decl')) ]_vars

----------------------------------------------------------------------------
(* A lift on a used instance against the same lift on a fresh one *)

\* LiftFunction(decl) run to its end on a freshly constructed lifter.
FreshLift(decl) ==
  LET Finish(L) == IF Aborted(L) THEN L ELSE LiftFunctionEnd(L)
      Run(r) == IF r.entered THEN Finish(RunInOrder(r.L)) ELSE r.L
  IN Run(LiftFunctionBegin(NewLifter, decl))

\* The wrappers called from the lifted blocks.
Callees(L) ==
  { <<L.blocks[b][i].addr, L.blocks[b][i].t>> :
      <<b, i>> \in { p \in (DOMAIN L.blocks) \X (1..8) :
                      /\ p[2] <= Len(L.blocks[p[1]])
                      /\ L.blocks[p[1]][p[2]].op = "call_native" } }

\* What a call of LiftFunction produced.
LiftResult(L) ==
  [ loop |-> LoopResult(L),
    callees |-> Callees(L),
    returned |-> L.returned,
    has_body |-> L.returned # NullFunc /\ L.module[L.returned].body ]

\* C15: a lift of a function on an instance that has lifted another
\* function before produces what the lift of that function on a fresh
\* instance with the same providers produces (edge keys, decoded addresses,
\* per-block outcome, callee set, returned function), and it aborts exactly
\* when the fresh lift does; so does the first lift, trivially.
C15_ReuseEqualsFresh ==
  (Len(fl.lifts) >= 1 /\ phase \in {"done", "abort"}) =>
    /\ (phase = "abort") = Aborted(FreshLift(entry_decl))
    /\ phase = "done" => LiftResult(fl) = LiftResult(FreshLift(entry_decl))

\* The second lift has finished with a semantic body of its own; it calls
\* the function lifted first, whose wrapper has a body by now.
C15_Witness ==
  /\ phase = "done"
  /\ Len(fl.lifts) = 2
  /\ fl.returned # NullFunc
  /\ fl.lifted_func = LiftedName(fl.returned)
  /\ \E c \in Callees(fl) :
       /\ c[1] = fl.lifts[1].address
       /\ Has(fl.module, c)
       /\ fl.module[c].body

----------------------------------------------------------------------------
(* The entry byte of the function to lift *)

\* The call created nothing in the instance for the function to lift from.
NothingToLift(L) ==
  /\ L.blocks = EmptyMap
  /\ L.edge_work_list = {}
  /\ L.edge_to_dest_block = EmptyMap

\* C16: LiftFunction returns no function and declares nothing when the
\* entry byte's address is invalid or its memory is not executable; when
\* the address is valid and executable but the byte is not available it
\* returns a declaration without a body and creates no semantic body, no
\* block and no work-list entry; only otherwise does it create the semantic
\* body and enter the work-list loop.
C16_EntryByteDecides ==
  [][ IsLiftFunctionCall =>
        LET q == Query(entry_decl'.address)
            can_declare == IsValidAddress(q.avail) /\ IsExecutable(q.perms)
        IN /\ ~can_declare =>
                /\ fl'.returned = NullFunc
                /\ fl'.module = fl.module
                /\ fl'.func_name_to_address = fl.func_name_to_address
                /\ fl'.addr_to_func = EmptyMap
                /\ NothingToLift(fl')
                /\ phase' = "done"
           /\ (can_declare /\ ~HasByte(q.avail)) =>
                /\ fl'.returned # NullFunc
                /\ Has(fl'.module, fl'.returned)
                /\ ~fl'.module[fl'.returned].body
                /\ ~Has(fl'.module, LiftedName(fl'.returned))
                /\ NothingToLift(fl')
                /\ phase' = "done"
           /\ (can_declare /\ HasByte(q.avail)) =>
                /\ phase' = "visit"
                /\ fl'.module[fl'.lifted_func].body
                /\ ~Has(fl.module, fl'.lifted_func)
                /\ fl'.edge_work_list = {<<entry_decl'.address, 0>>}
    ]_vars

\* A second call on the instance has returned a declaration without a body
\* for an executable address whose byte the provider does not have.
C16_Witness ==
  /\ Len(fl.lifts) = 2
  /\ phase = "done"
  /\ Query(entry_decl.address).avail = "Unknown"
  /\ fl.returned # NullFunc
  /\ ~fl.module[fl.returned].body
  /\ NothingToLift(fl)

----------------------------------------------------------------------------
(* LoadFunctionReturnAddress on its own *)

\* The four-byte window starts at addresses 0..(MaxReturnAddr - 3).
MaxReturnAddr == 3

\* Byte values that set or clear each field of the SPARC format-2 word when
\* they stand first or second: 1 sets bit 24 (op2), 62 sets rd or imm22
\* bits only, 64 sets bit 30 (op) or bit 22 (op2), 128 sets bit 31 or 23.
ReturnBytes == {0, 1, 62, 64, 128}

\* Executable bytes, and a zero byte in every other state of the provider.
ExecutableCells == { Cell(b, "Available", "RX") : b \in ReturnBytes }

OtherCells ==
  { Cell(0, "Available", "RWX"), Cell(0, "Available", "Unknown"),
    Cell(0, "Available", "R"), Cell(0, "Available", "RW"),
    Cell(0, "Unavailable", "RX"), Cell(0, "Unknown", "RX") }

\* Images in which at most one byte is not plain executable code.
InitReturn ==
  /\ arch \in Archs
  /\ memory \in [0..MaxReturnAddr -> ExecutableCells \cup OtherCells]
  /\ Cardinality({a \in 0..MaxReturnAddr : memory[a] \in OtherCells}) <= 1
  /\ redirections = EmptyMap
  /\ type_provider = [x \in 0..MaxReturnAddr |-> 0]
  /\ entry_decl = [address |-> 0, type |-> 1]
  /\ null_deref = "trap"
  /\ fl = NewLifter
  /\ phase = "return"
  /\ max_inst_size = 0
  /\ decode_log = NoDecodeLog
  /\ return_log = NoReturnLog
  /\ context = NewContext
  /\ options = DefaultOptions
  /\ register_hints = NoRegisterHints

\* A call instruction whose branch_not_taken_pc is pc.
CallInstruction(pc) ==
  [InvalidInstruction(0) EXCEPT !.ok = TRUE,
                                !.category = "DirectFunctionCall",
                                !.next_pc = pc,
                                !.branch_not_taken_pc = pc]

\* LoadFunctionReturnAddress(inst, block) is called for a call instruction.
CallLoadFunctionReturnAddress ==
  /\ phase = "return"
  /\ \E pc \in 0..(MaxReturnAddr - 3) :
       return_log' = [called |-> TRUE, pc |-> pc,
                      ret |-> LoadFunctionReturnAddress(CallInstruction(pc))]
  /\ phase' = "returned"
  /\ UNCHANGED <<inputs, fl, max_inst_size, decode_log, context>>

NextReturn == CallLoadFunctionReturnAddress

SpecReturn == InitReturn /\ [][NextReturn]_vars

\* The big-endian word of the four bytes from pc on, as its upper and
\* lower 16 bits, and its fields.
WordAt(pc) ==
  [ high |-> Query(pc).byte * 256 + Query(pc + 1).byte,
    low  |-> Query(pc + 2).byte * 256 + Query(pc + 3).byte ]

OpField(w) == w.high \div (2 ^ 14)

Op2Field(w) == (w.high \div (2 ^ 6)) % 8

RdField(w) == (w.high \div (2 ^ 9)) % 32

Imm22Field(w) == (w.high % (2 ^ 6)) * (2 ^ 16) + w.low

\* The byte at `a` is present and its permissions are RX or RWX.
PresentAndExecutable(a) ==
  Query(a).avail = "Available" /\ Query(a).perms \in {"RX", "RWX"}

\* The byte at `a` is present and MemoryProvider::IsExecutable accepts its
\* permissions, which it does for RX, RWX and Unknown.
PresentAndNotKnownData(a) ==
  HasByte(Query(a).avail) /\ IsExecutable(Query(a).perms)

Advanced(pc) == [pc |-> pc + 4, adjust |-> 4]

Unchanged(pc) == [pc |-> pc, adjust |-> 0]

\* C19: LoadFunctionReturnAddress returns (branch_not_taken_pc + 4,
\* return PC + 4) exactly when the architecture is SPARC, the four bytes at
\* branch_not_taken_pc .. +3 are present with permissions RX or RWX and the
\* word they form has op = 0 and op2 = 0; otherwise it returns
\* (branch_not_taken_pc, return PC).
C19_ReturnAddressAdvancedIffUnimp ==
  return_log.called =>
    return_log.ret =
      IF /\ IsSPARC(arch)
         /\ \A i \in 0..3 : PresentAndExecutable(return_log.pc + i)
         /\ OpField(WordAt(return_log.pc)) = 0
         /\ Op2Field(WordAt(return_log.pc)) = 0
        THEN Advanced(return_log.pc)
        ELSE Unchanged(return_log.pc)

\* C19 with "executable" read as MemoryProvider::IsExecutable reads it: the
\* same equivalence, bytes of unknown permissions counted as executable.
C19_AdvancedIffUnimpNotKnownData ==
  return_log.called =>
    return_log.ret =
      IF /\ IsSPARC(arch)
         /\ \A i \in 0..3 : PresentAndNotKnownData(return_log.pc + i)
         /\ OpField(WordAt(return_log.pc)) = 0
         /\ Op2Field(WordAt(return_log.pc)) = 0
        THEN Advanced(return_log.pc)
        ELSE Unchanged(return_log.pc)

\* An unimp word with rd # 0 and one with imm22 = 0 both advance the resume
\* address on SPARC.
C19_RdAndImm22Ignored ==
  (return_log.called /\ IsSPARC(arch)
     /\ \A i \in 0..3 : PresentAndExecutable(return_log.pc + i)
     /\ OpField(WordAt(return_log.pc)) = 0
     /\ Op2Field(WordAt(return_log.pc)) = 0)
  => return_log.ret = Advanced(return_log.pc)

C19_WitnessRd ==
  /\ return_log.called /\ IsSPARC(arch)
  /\ return_log.ret = Advanced(return_log.pc)
  /\ RdField(WordAt(return_log.pc)) # 0
  /\ Imm22Field(WordAt(return_log.pc)) # 0

C19_WitnessImm22Zero ==
  /\ return_log.called /\ IsSPARC(arch)
  /\ return_log.ret = Advanced(return_log.pc)
  /\ Imm22Field(WordAt(return_log.pc)) = 0

----------------------------------------------------------------------------
(* Call sites and delay slots *)

\* The images of SpecCalls cover the addresses 0..MaxCallAddr.
MaxCallAddr == 6

\* Addresses an instruction can name as its target (three bits).
Targets == 0..7

\* The instruction at the entry: a call or an instruction with two outgoing
\* paths, with the annul bit clear or set.  The categories that use their
\* target name address 3 or 6.
SiteCells ==
  { Code(c, t + 8 * annul) :
      c \in {"DirectFunctionCall", "ConditionalDirectFunctionCall",
             "ConditionalBranch"},
      t \in {3, 6}, annul \in {0, 1} }
  \cup
  { Code(c, 8 * annul) :
      c \in {"IndirectFunctionCall", "ConditionalIndirectFunctionCall",
             "ConditionalIndirectJump", "ConditionalFunctionReturn",
             "ConditionalAsyncHyperCall"},
      annul \in {0, 1} }

\* The byte after the entry: the delay slot on SPARC and the resume address
\* elsewhere.  A return cannot be decoded in a delay slot.
SlotCells == { Code("Normal", 0), Code("FunctionReturn", 0), Unmapped }

\* The four bytes at addresses 2..5.  Code("Normal", 0) is byte 16: as the
\* first byte of a SPARC word it gives op = 0, rd = 8 and bit 24 clear, as
\* the second it leaves op2 = 0.  Code("DirectJump", 6) is byte 70, which as
\* the second byte sets bit 22 (op2 = 1).
CallWords ==
  { << Code("FunctionReturn", 0), Unmapped, Unmapped, Unmapped >>,
    << Code("Normal", 0), Code("Normal", 0), Code("Normal", 0),
       Code("Normal", 0) >>,
    << Code("Normal", 0), Code("DirectJump", 6), Code("Normal", 0),
       Code("Normal", 0) >>,
    << Code("Normal", 0), Code("Normal", 0), Code("Normal", 0),
       Cell(Enc("Normal", 0), "Available", "RW") >>,
    << Code("Normal", 0), Code("Normal", 0),
       Cell(Enc("Normal", 0), "Available", "Unknown"), Code("Normal", 0) >> }

CallImages ==
  { [a \in 0..MaxCallAddr |->
       IF a = 0 THEN site
       ELSE IF a = 1 THEN slot
       ELSE IF a <= 5 THEN word[a - 1]
       ELSE tail[a]] :
    site \in SiteCells, slot \in SlotCells, word \in CallWords,
    tail \in [6..MaxCallAddr -> {Code("FunctionReturn", 0), Unmapped}] }

\* No declaration, or one at a call target: of a type with an ABI or of one
\* without.
CallDeclarations ==
  { [x \in Targets |-> 0] }
  \cup { [x \in Targets |-> IF x = t THEN ty ELSE 0] :
           t \in {3, 6}, ty \in {1, UnbuildableType} }

\* No redirection, or the resume address of the call redirected.
CallRedirections == { EmptyMap, [x \in {1} |-> 6], [x \in {2} |-> 6] }

InitCalls ==
  /\ arch \in Archs
  /\ memory \in CallImages
  /\ IsSPARC(arch) \/ memory[0].byte % 16 < 8
  /\ redirections \in CallRedirections
  /\ type_provider \in CallDeclarations
  /\ entry_decl = [address |-> 0, type |-> 1]
  /\ null_deref = "trap"
  /\ fl = NewLifter
  /\ phase = "start"
  /\ max_inst_size = 0
  /\ decode_log = NoDecodeLog
  /\ return_log = NoReturnLog
  /\ context = NewContext
  /\ options = DefaultOptions
  /\ register_hints = NoRegisterHints

SpecCalls == InitCalls /\ [][Next]_vars

\* The category and the target the decoder reads from the byte at `a`.
CategoryAt(a) == Categories[(Query(a).byte \div 16) + 1]

TargetAt(a) == Query(a).byte % 8

\* The addresses whose instruction has been lifted, and the block of each.
LiftedAddresses(L) ==
  { a \in DOMAIN L.addr_to_block : L.blocks[L.addr_to_block[a]] # <<>> }

\* The block of the instruction at `a` and the blocks it splits into.
SiteBlocks(L, a) ==
  LET b == L.addr_to_block[a]
  IN {b} \cup UNION { {L.blocks[b][i].t, L.blocks[b][i].f} :
                        i \in {j \in 1..Len(L.blocks[b]) :
                                 L.blocks[b][j].op = "condbr"} }

IsCall(item) == item.op \in {"call", "call_native"}

\* The positions <<block, index>> of the calls emitted for the site at `a`.
CallsOfSite(L, a) ==
  { p \in UNION { {b} \X (1..Len(L.blocks[b])) : b \in SiteBlocks(L, a) } :
      IsCall(L.blocks[p[1]][p[2]]) }

\* Post-call wiring follows position p: two stores and a branch end the
\* block.
WiredAfter(L, p) ==
  LET items == L.blocks[p[1]]
      i == p[2]
  IN /\ Len(items) = i + 3
     /\ items[i + 1].op = "store"
     /\ items[i + 2].op = "store"
     /\ items[i + 3].op = "br"

\* The type the type provider declares for the target of the call at `a`:
\* at the redirected target, else at the target itself; 0 when neither.
DeclaredTypeOfTarget(a) ==
  LET t == TargetAt(a)
      r == GetRedirection(t)
  IN IF TryGetFunctionType(r) # 0 THEN TryGetFunctionType(r)
     ELSE IF r # t THEN TryGetFunctionType(t) ELSE 0

\* The redirected target of the call at `a` can be declared: its address is
\* valid and executable.
TargetDeclarable(a) ==
  LET q == Query(GetRedirection(TargetAt(a)))
  IN IsValidAddress(q.avail) /\ IsExecutable(q.perms)

TypedCallBuildable(a) ==
  /\ DeclaredTypeOfTarget(a) # 0
  /\ TargetDeclarable(a)
  /\ FunctionDeclCreateOk(DeclaredTypeOfTarget(a))

\* The call the claim expects at the direct call site at `a`.
ExpectedCall(a) ==
  IF TypedCallBuildable(a)
    THEN NativeCallItem(<<GetRedirection(TargetAt(a)), DeclaredTypeOfTarget(a)>>)
    ELSE IntrinsicCallItem("function_call")

DirectCallSites(L) ==
  { a \in LiftedAddresses(L) :
      CategoryAt(a) \in {"DirectFunctionCall", "ConditionalDirectFunctionCall"} }

C17_WitnessTyped ==
  \E a \in DirectCallSites(fl) :
    \E p \in CallsOfSite(fl, a) : fl.blocks[p[1]][p[2]].op = "call_native"

C17_WitnessNoDecl ==
  \E a \in DirectCallSites(fl) :
    DeclaredTypeOfTarget(a) = 0 /\ CallsOfSite(fl, a) # {}

C17_WitnessNotDeclarable ==
  \E a \in DirectCallSites(fl) :
    /\ DeclaredTypeOfTarget(a) # 0 /\ ~TargetDeclarable(a)
    /\ CallsOfSite(fl, a) # {}

----------------------------------------------------------------------------
(* Post-call wiring *)

CallCategories ==
  { "DirectFunctionCall", "ConditionalDirectFunctionCall",
    "IndirectFunctionCall", "ConditionalIndirectFunctionCall" }

CallSites(L) == { a \in LiftedAddresses(L) : CategoryAt(a) \in CallCategories }

\* branch_not_taken_pc of the instruction at `a`, as the decoder reports it.
NotTakenPc(a) == ArchDecode(arch, a, <<Query(a).byte>>, FALSE).branch_not_taken_pc

\* The SPARC exception applies at pc: the four bytes from pc on are present
\* with permissions RX or RWX and form a word with op = 0 and op2 = 0.
UnimpFollows(pc) ==
  /\ IsSPARC(arch)
  /\ \A i \in 0..3 : PresentAndExecutable(pc + i)
  /\ OpField(WordAt(pc)) = 0
  /\ Op2Field(WordAt(pc)) = 0

\* The same with bytes of unknown permissions counted as executable.
UnimpFollowsNotKnownData(pc) ==
  /\ IsSPARC(arch)
  /\ \A i \in 0..3 : PresentAndNotKnownData(pc + i)
  /\ OpField(WordAt(pc)) = 0
  /\ Op2Field(WordAt(pc)) = 0

\* After the call at position p of the site at `a` come a store of the
\* return PC plus r.adjust into PC, a store of the same value into NEXT_PC
\* and a branch to the block of the edge from `a` to the redirected r.pc,
\* which ends the block.
ResumesAt(L, a, p, r) ==
  LET items == L.blocks[p[1]]
      i == p[2]
      key == <<a, GetRedirection(r.pc)>>
  IN /\ Len(items) = i + 3
     /\ items[i + 1] = StoreItem("PC", r.adjust)
     /\ items[i + 2] = StoreItem("NEXT_PC", r.adjust)
     /\ Has(L.edge_to_dest_block, key)
     /\ items[i + 3] = BranchItem(L.edge_to_dest_block[key])

\* C18: after the call of every call site the same return-PC value is
\* stored into PC and NEXT_PC and then the block branches to the block of
\* the redirected resume address, which is branch_not_taken_pc unless the
\* SPARC exception applies (then four more, and the value stored is the
\* return PC plus four).
C18_PostCallWiring ==
  \A a \in CallSites(fl) :
    /\ CallsOfSite(fl, a) # {}
    /\ \A p \in CallsOfSite(fl, a) :
         ResumesAt(fl, a, p,
                   IF UnimpFollows(NotTakenPc(a))
                     THEN Advanced(NotTakenPc(a))
                     ELSE Unchanged(NotTakenPc(a)))

\* C18 with the SPARC exception as LoadFunctionReturnAddress applies it:
\* the order of call, stores and branch, the equal stored values and the
\* redirected branch target.
C18_PostCallWiringNotKnownData ==
  \A a \in CallSites(fl) :
    /\ CallsOfSite(fl, a) # {}
    /\ \A p \in CallsOfSite(fl, a) :
         ResumesAt(fl, a, p,
                   IF UnimpFollowsNotKnownData(NotTakenPc(a))
                     THEN Advanced(NotTakenPc(a))
                     ELSE Unchanged(NotTakenPc(a)))

\* A conditional call site whose resume address is redirected, one whose
\* call is typed, and one followed by an unimp word.
C18_WitnessRedirected ==
  \E a \in CallSites(fl) :
    /\ CategoryAt(a) = "ConditionalIndirectFunctionCall"
    /\ GetRedirection(NotTakenPc(a)) # NotTakenPc(a)
    /\ ~UnimpFollowsNotKnownData(NotTakenPc(a))

C18_WitnessTyped ==
  \E a \in CallSites(fl) :
    \E p \in CallsOfSite(fl, a) : fl.blocks[p[1]][p[2]].op = "call_native"

C18_WitnessUnimp ==
  \E a \in CallSites(fl) : UnimpFollows(NotTakenPc(a))

----------------------------------------------------------------------------
(* Delay slots of instructions with two outgoing paths *)

TwoPathCategories ==
  { "ConditionalBranch", "ConditionalIndirectJump",
    "ConditionalFunctionReturn", "ConditionalDirectFunctionCall",
    "ConditionalIndirectFunctionCall", "ConditionalAsyncHyperCall" }

\* The instruction at `a` and the instruction of its delay slot, as the
\* decoder reports them.
InstAt(a) == ArchDecode(arch, a, <<Query(a).byte>>, FALSE)

DelayedInstAt(a) == DecodeInstructionInto(arch, InstAt(a).delayed_pc, TRUE).inst

\* The lifted instructions of a two-path category that have a delayed
\* instruction.
TwoPathSites(L) ==
  { a \in LiftedAddresses(L) :
      CategoryAt(a) \in TwoPathCategories /\ MayHaveDelaySlot(InstAt(a)) }

\* The block control passes through after the instruction at `a` when the
\* branch is taken (taken = TRUE) or not: the side of the conditional
\* branch that ends the block of `a`, or that block itself when it is not
\* split.
PathBlock(L, a, taken) ==
  LET b == L.addr_to_block[a]
      last == L.blocks[b][Len(L.blocks[b])]
  IN IF last.op = "condbr" THEN (IF taken THEN last.t ELSE last.f) ELSE b

\* The delayed instruction of `a` is lifted into block blk.
DelayedLiftedInto(L, a, blk) ==
  \E i \in 1..Len(L.blocks[blk]) :
    L.blocks[blk][i] = LiftItem(InstAt(a).delayed_pc, TRUE)

DelayedOnBothPathsAsQueried(L, a) ==
  /\ DelayedLiftedInto(L, a, PathBlock(L, a, TRUE))
       <=> NextInstructionIsDelayed(InstAt(a), DelayedInstAt(a), TRUE)
  /\ DelayedLiftedInto(L, a, PathBlock(L, a, FALSE))
       <=> NextInstructionIsDelayed(InstAt(a), DelayedInstAt(a), FALSE)

\* C20: for every instruction of a two-path category that has a delayed
\* instruction, the delayed instruction is lifted into the taken path iff
\* NextInstructionIsDelayed(inst, delayed, true) and into the not-taken
\* path iff NextInstructionIsDelayed(inst, delayed, false).
C20_DelayedLiftedPerPath ==
  \A a \in TwoPathSites(fl) : DelayedOnBothPathsAsQueried(fl, a)

\* C20 for the five categories whose visitor the dispatch invokes.
C20_DelayedLiftedPerPathWhereSplit ==
  \A a \in TwoPathSites(fl) :
    CategoryAt(a) # "ConditionalDirectFunctionCall"
      => DelayedOnBothPathsAsQueried(fl, a)

\* An annulled delay slot: lifted into the taken block and not into the
\* not-taken block of a conditional branch.
C20_WitnessAnnulled ==
  \E a \in TwoPathSites(fl) :
    /\ CategoryAt(a) = "ConditionalBranch"
    /\ ~NextInstructionIsDelayed(InstAt(a), DelayedInstAt(a), FALSE)
    /\ DelayedLiftedInto(fl, a, PathBlock(fl, a, TRUE))
    /\ ~DelayedLiftedInto(fl, a, PathBlock(fl, a, FALSE))

\* A conditional direct call whose block is not split.
C20_WitnessNotSplit ==
  \E a \in TwoPathSites(fl) :
    /\ CategoryAt(a) = "ConditionalDirectFunctionCall"
    /\ PathBlock(fl, a, FALSE) = fl.addr_to_block[a]

----------------------------------------------------------------------------
(* The wrapper after inlining *)

\* The items of the semantic body of the lift in progress or just done.
LiftedItems(L) ==
  UNION { { L.blocks[b][i] : i \in 1..Len(L.blocks[b]) } : b \in DOMAIN L.blocks }

\* LiftFunction has returned a wrapper to which this call gave its body.
WrapperJustFilled ==
  /\ phase = "done"
  /\ fl.returned # NullFunc
  /\ Has(fl.bodies, fl.returned)
  /\ fl.blocks # EmptyMap

\* C21: when the inlining has finished, the wrapper holds no call of a
\* `.lifted` semantic body and no call of a callee that has a body and is
\* not noinline (here the semantics of instructions); the calls of
\* declarations (intrinsics) and of the noinline wrappers of functions,
\* made by the semantic body, remain in it.
C21_WrapperFullyInlined ==
  /\ \A w \in DOMAIN fl.bodies :
       fl.bodies[w].lifted = {} /\ fl.bodies[w].semantics = {}
  /\ WrapperJustFilled =>
       \A it \in LiftedItems(fl) :
         /\ it.op \in {"call", "tailcall"}
              => it.fn \in fl.bodies[fl.returned].intrinsics
         /\ it.op = "call_native"
              => <<it.addr, it.t>> \in fl.bodies[fl.returned].wrappers

\* A wrapper whose semantic body lifted an instruction and called the
\* wrapper of another function that has a body.
C21_Witness ==
  /\ WrapperJustFilled
  /\ \E it \in LiftedItems(fl) : it.op = "lift"
  /\ \E w \in fl.bodies[fl.returned].wrappers :
       w # fl.returned /\ Has(fl.module, w) /\ fl.module[w].body

----------------------------------------------------------------------------
(* The entity lifter: LiftEntity and AddFunctionToContext *)

\* LiftFunction(decl) from its first statement to its return, the work list
\* served in ascending order.  The function returned is the field
\* `returned` of the result.
LiftFunction(L, decl) ==
  LET Finish(L1) == IF Aborted(L1) THEN L1 ELSE LiftFunctionEnd(L1)
      Run(r) == IF r.entered THEN Finish(RunInOrder(r.L)) ELSE r.L
  IN Run(LiftFunctionBegin(L, decl))

Remove(f, k) == [x \in (DOMAIN f) \ {k} |-> f[x]]

\* An entity is a function of the target module or of the semantics module,
\* known by its name <<address, type>>.
TargetEntity(name) == <<"target", name>>

SemanticsEntity(name) == <<"semantics", name>>

NullEntity == <<>>

EntityType(e) == e[2][2]

\* EntityLifterImpl::ForEachEntityAtAddress: the entities at `address`.
EntitiesAt(C, address) ==
  IF Has(C.entities, address) THEN C.entities[address] ELSE {}

\* EntityLifterImpl::AddEntity
AddEntity(C, entity, address) ==
  [C EXCEPT !.entities = Put(@, address, EntitiesAt(C, address) \cup {entity})]

\* FunctionLifter::AddressOfNamedFunction: the set holding the address, or
\* the empty set (std::nullopt).
AddressOfNamedFunction(L, func_name) ==
  IF Has(L.func_name_to_address, func_name)
    THEN {L.func_name_to_address[func_name]} ELSE {}

\* EraseFunctionBody(func) on a function of the semantics module.
EraseFunctionBody(L, func) ==
  [L EXCEPT !.module[func] = [body |-> FALSE],
            !.bodies = Remove(@, func)]

\* The functions called by the call instructions of `func`; a function
\* without a body has no instruction.  Only wrappers have names that
\* func_name_to_address can hold.
CalledFunctions(L, func) ==
  IF Has(L.bodies, func) THEN L.bodies[func].wrappers ELSE {}

\* The loop over llvm::instructions(*func) at the end of
\* AddFunctionToContext (lines 1787-1797).
RECURSIVE AddCalledEntities(_, _, _)
AddCalledEntities(L, C, called) ==
  IF called = {} THEN C
  ELSE LET f == CHOOSE x \in called : TRUE
           C1 == IF AddressOfNamedFunction(L, f) = {} THEN C
                 ELSE AddEntity(C, SemanticsEntity(f),
                                L.func_name_to_address[f])
       IN AddCalledEntities(L, C1, called \ {f})

\* FunctionLifter::AddFunctionToContext(func, address, lifter_context).
\* Returns the lifter, the context and the function of the target module.
AddFunctionToContext(L, C, func, address) ==
  LET by_name == Has(C.module, func)
      by_type == { e \in EntitiesAt(C, address) :
                     e[1] = "target" /\ EntityType(e) = func[2] }
      new_version == IF by_name \/ by_type = {} THEN func
                     ELSE (CHOOSE e \in by_type : TRUE)[2]
      \* remill::CloneFunctionInto(func, new_version)
      C1 == [C EXCEPT !.module =
               Put(@, new_version,
                   [ body |-> L.module[func].body,
                     calls |-> IF Has(L.bodies, func) THEN L.bodies[func]
                               ELSE NoCalls ])]
      L1 == EraseFunctionBody(L, func)
      C2 == AddEntity(C1, TargetEntity(new_version), address)
  IN IF ~by_name /\ Cardinality(by_type) > 1
       THEN [L |-> [L EXCEPT !.aborted = "CHECK(!new_version)"], C |-> C,
             func |-> NullFunc]
       ELSE [L |-> L1,
             C |-> AddCalledEntities(L1, C2, CalledFunctions(L1, func)),
             func |-> new_version]

\* LiftEntity that registers the function of decl at its address also when
\* LiftFunction has failed.
LiftEntityRegisterOnFailure(L, C, decl) ==
  LET matching == { e \in EntitiesAt(C, decl.address) :
                      EntityType(e) = decl.type }
      found_by_type == IF matching = {} THEN NullEntity
                       ELSE CHOOSE e \in matching : TRUE
      Record(Lr, Cr, ret) ==
        [L |-> Lr,
         C |-> [Cr EXCEPT !.calls = Append(@, [decl |-> decl, returned |-> ret])]]
      Added(r) ==
        IF Aborted(r.L) THEN Record(r.L, C, NullEntity)
        ELSE IF found_by_type # NullEntity /\ TargetEntity(r.func) # found_by_type
          THEN Record([r.L EXCEPT !.aborted = "CHECK_EQ func_in_target_module"],
                      C, NullEntity)
        ELSE Record(r.L, r.C, TargetEntity(r.func))
      Lifted(L1) ==
        IF Aborted(L1) THEN Record(L1, C, NullEntity)
        ELSE IF L1.returned = NullFunc
          THEN Record(L1,
                      AddEntity(C, TargetEntity(<<decl.address, decl.type>>),
                                decl.address),
                      found_by_type)
        ELSE Added(AddFunctionToContext(L1, C, L1.returned, decl.address))
  IN Lifted(LiftFunction(L, decl))

\* EntityLifter::LiftEntity(decl).  The ghost field `calls` of the context
\* records the calls made and what each returned.
LiftEntity(L, C, decl) ==
  LET matching == { e \in EntitiesAt(C, decl.address) :
                      EntityType(e) = decl.type }
      found_by_type == IF matching = {} THEN NullEntity
                       ELSE CHOOSE e \in matching : TRUE
      Record(Lr, Cr, ret) ==
        [L |-> Lr,
         C |-> [Cr EXCEPT !.calls = Append(@, [decl |-> decl, returned |-> ret])]]
      Added(r) ==
        IF Aborted(r.L) THEN Record(r.L, C, NullEntity)
        ELSE IF found_by_type # NullEntity /\ TargetEntity(r.func) # found_by_type
          THEN Record([r.L EXCEPT !.aborted = "CHECK_EQ func_in_target_module"],
                      C, NullEntity)
        ELSE Record(r.L, r.C, TargetEntity(r.func))
      Lifted(L1) ==
        IF Aborted(L1) THEN Record(L1, C, NullEntity)
        ELSE IF L1.returned = NullFunc THEN Record(L1, C, found_by_type)
        ELSE Added(AddFunctionToContext(L1, C, L1.returned, decl.address))
  IN Lifted(LiftFunction(L, decl))

\* At most MaxLiftEntityCalls calls of LiftEntity are made.
MaxLiftEntityCalls == 2

\* The FunctionDecls handed to LiftEntity: two addresses, two types.
EntityDecls == [address : {0, 1}, type : {1, 2}]

InitEntity ==
  /\ arch = "x86"
  /\ max_inst_size = 0
  /\ decode_log = NoDecodeLog
  /\ return_log = NoReturnLog
  /\ context = NewContext
  /\ options = DefaultOptions
  /\ register_hints = NoRegisterHints
  /\ redirections = EmptyMap
  /\ null_deref = "trap"
  /\ entry_decl = [address |-> 0, type |-> 1]
  /\ memory \in [Addr -> ReuseCells]
  /\ LiveMemory(Reachable({0, 1}))
  /\ type_provider \in {NoDeclarations, EntriesDeclared}
  /\ fl = NewLifter
  /\ phase = "entity"

\* The caller calls LiftEntity(decl).
CallLiftEntity ==
  /\ phase = "entity"
  /\ Len(context.calls) < MaxLiftEntityCalls
  /\ \E decl \in EntityDecls :
       LET Returned(r) ==
             /\ fl' = r.L
             /\ context' = r.C
             /\ phase' = PhaseAfter(r.L, "entity")
             /\ max_inst_size' = StaticAfter(r.L)
             /\ entry_decl' = decl
       IN Returned(LiftEntity(fl, context, decl))
  /\ UNCHANGED <<memory, redirections, type_provider, arch, null_deref,
                 options, register_hints, logs>>

NextEntity == CallLiftEntity

SpecEntity == InitEntity /\ [][NextEntity]_vars

\* The function the last LiftEntity call added to the context, or
\* NullEntity.
LastAdded ==
  IF phase = "entity" /\ context.calls # <<>>
       /\ fl.returned # NullFunc
       /\ context.calls[Len(context.calls)].returned # NullEntity
    THEN context.calls[Len(context.calls)].returned
    ELSE NullEntity

\* The wrappers of other functions that entity e of the target module
\* calls and whose name maps to a known address.
KnownCallees(e) ==
  { w \in context.module[e[2]].calls.wrappers :
      w # e[2] /\ AddressOfNamedFunction(fl, w) # {} }

\* C22: after AddFunctionToContext has added a lifted function that calls
\* the wrapper of another function whose generated name maps to a known
\* address, the registry associates that address with the callee.
C22_CalleesRegistered ==
  LastAdded # NullEntity =>
    \A w \in KnownCallees(LastAdded) :
      \E e \in EntitiesAt(context, fl.func_name_to_address[w]) : e[2] = w

\* What the registry does hold: at each address only functions of the
\* target module that a LiftEntity call returned for that address.
C22_OnlyLiftedFunctionsRegistered ==
  \A a \in DOMAIN context.entities :
    \A e \in context.entities[a] :
      /\ e[1] = "target"
      /\ \E i \in 1..Len(context.calls) :
           context.calls[i].returned = e /\ context.calls[i].decl.address = a

\* A lifted function that calls another function's wrapper was added, and
\* its own association is in the registry.
C22_WitnessCallerAdded ==
  /\ LastAdded # NullEntity
  /\ KnownCallees(LastAdded) # {}
  /\ LastAdded \in EntitiesAt(context, context.calls[Len(context.calls)].decl.address)

\* The pairs i < j of LiftEntity calls made so far.
CallPairs ==
  { p \in (1..Len(context.calls)) \X (1..Len(context.calls)) : p[1] < p[2] }

\* The functions of the target module with the signature of decl.
FunctionsFor(decl) ==
  { n \in DOMAIN context.module : n = <<decl.address, decl.type>> }

\* Call j lifted the FunctionDecl that call i had lifted: it ran to its
\* end, returned the function object call i returned, and the target
\* module holds one function for the FunctionDecl.
SecondLiftReplaces(i, j) ==
  /\ phase # "abort"
  /\ context.calls[j].returned = context.calls[i].returned
  /\ Cardinality(FunctionsFor(context.calls[i].decl)) = 1

\* Calls i and j lifted FunctionDecls of different types at one address:
\* two distinct functions, both registered at the address.
BothCoexist(i, j) ==
  /\ context.calls[i].returned # context.calls[j].returned
  /\ {context.calls[i].returned, context.calls[j].returned}
       \subseteq EntitiesAt(context, context.calls[i].decl.address)

\* C23: lifting the same FunctionDecl twice through LiftEntity leaves one
\* function for it in the target module and the second lift returns the
\* function object of the first; lifting a FunctionDecl of another type at
\* the same address adds a second function, both registered at the address.
C23_ReliftReplacesOtherTypeCoexists ==
  \A p \in CallPairs :
    LET first  == context.calls[p[1]]
        second == context.calls[p[2]]
    IN /\ (first.decl = second.decl /\ first.returned # NullEntity)
            => SecondLiftReplaces(p[1], p[2])
       /\ (first.decl.address = second.decl.address
             /\ first.decl.type # second.decl.type
             /\ first.returned # NullEntity /\ second.returned # NullEntity)
            => BothCoexist(p[1], p[2])

\* The second half alone: functions of different types at one address
\* coexist.
C23_OtherTypeCoexists ==
  \A p \in CallPairs :
    LET first  == context.calls[p[1]]
        second == context.calls[p[2]]
    IN (first.decl.address = second.decl.address
          /\ first.decl.type # second.decl.type
          /\ first.returned # NullEntity /\ second.returned # NullEntity)
         => BothCoexist(p[1], p[2])

\* The first half for functions that have no semantic body (their entry
\* byte is not available): the second lift returns the same declaration.
C23_ReliftOfDeclarationReplaces ==
  \A p \in CallPairs :
    LET first  == context.calls[p[1]]
        second == context.calls[p[2]]
    IN (first.decl = second.decl /\ first.returned # NullEntity
          /\ ~Has(fl.module, LiftedName(first.returned[2])))
         => SecondLiftReplaces(p[1], p[2])

C23_WitnessOtherType ==
  \E p \in CallPairs :
    /\ context.calls[p[1]].decl.address = context.calls[p[2]].decl.address
    /\ context.calls[p[1]].decl.type # context.calls[p[2]].decl.type
    /\ context.calls[p[1]].returned # NullEntity
    /\ context.calls[p[2]].returned # NullEntity
    /\ context.module[context.calls[p[1]].returned[2]].body
    /\ context.module[context.calls[p[2]].returned[2]].body

C23_WitnessDeclarationRelifted ==
  \E p \in CallPairs :
    /\ context.calls[p[1]].decl = context.calls[p[2]].decl
    /\ context.calls[p[1]].returned # NullEntity
    /\ context.calls[p[2]].returned = context.calls[p[1]].returned

----------------------------------------------------------------------------
(* Redirection of edge targets *)

EntryKey(L) == <<0, L.func_address>>

\* Redirection tables for which GetRedirection(GetRedirection(a)) is
\* GetRedirection(a) at every address.
IdempotentRedirections ==
  \A a \in 0..(MaxAddr + 1) :
    GetRedirection(GetRedirection(a)) = GetRedirection(a)

\* Key k is an edge of the instruction at k[1] to the redirection of one of
\* its successor addresses.
RedirectedSuccessorEdge(k) ==
  \E t \in Successors(k[1]) : k[2] = GetRedirection(t)

\* An address that redirection replaces by another one.
IsRedirected(a) == GetRedirection(a) # a

\* The addresses for which GetOrCreateBlock has made a block and a
\* work-list entry in this lift.
AddressesWithBlock(L) ==
  { k[2] : k \in EdgeKeys(L) } \cup { e[1] : e \in DOMAIN L.n_enqueued }

\* The edges of direct jumps to a redirected address whose effective target
\* has a FunctionDecl, once the loop has dequeued them.
RedirectedJumpsIntoFunctions(L) ==
  { k \in EdgeKeys(L) :
      /\ CategoryAt(k[1]) = "DirectJump"
      /\ AccumulateInstByte(Query(k[1]))
      /\ IsRedirected(TargetAt(k[1]))
      /\ k[2] = GetRedirection(TargetAt(k[1]))
      /\ TryGetFunctionType(k[2]) # 0
      /\ Count(L.n_dequeued, <<k[2], k[1]>>) > 0 }

\* The block of edge k is a call of the wrapper of the function at k[2]
\* followed by a return of the memory pointer the call returned.
IsCallThenReturn(L, k) ==
  L.blocks[L.edge_to_dest_block[k]]
    = <<NativeCallItem(<<k[2], TryGetFunctionType(k[2])>>), ReturnItem>>

\* C24: every edge key other than the entry key (0, func_address) leads to
\* the redirection of a successor of the instruction at its from-address;
\* with an idempotent redirection table no block and no work-list entry is
\* made for an address that is redirected; and a jump to a redirected address
\* whose effective target has a FunctionDecl is lifted as a call of that
\* function followed by a return.
C24_EdgesFollowRedirection ==
  /\ \A k \in EdgeKeys(fl) \ {EntryKey(fl)} : RedirectedSuccessorEdge(k)
  /\ IdempotentRedirections =>
       \A a \in AddressesWithBlock(fl) : ~IsRedirected(a)
  /\ \A k \in RedirectedJumpsIntoFunctions(fl) : IsCallThenReturn(fl, k)

\* The first part alone.
C24_EdgeTargetsAreRedirectedSuccessors ==
  \A k \in EdgeKeys(fl) \ {EntryKey(fl)} : RedirectedSuccessorEdge(k)

\* The second part for every edge but the entry key, which LiftFunction
\* makes for func_address itself.
C24_NoBlockForRedirectedJumpTarget ==
  IdempotentRedirections =>
    /\ \A k \in EdgeKeys(fl) \ {EntryKey(fl)} : ~IsRedirected(k[2])
    /\ \A e \in DOMAIN fl.n_enqueued :
         <<e[2], e[1]>> # EntryKey(fl) => ~IsRedirected(e[1])

\* The third part for the functions whose call can be built and the edges
\* that are not the entry key.
C24_RedirectedJumpIntoCallableFunction ==
  \A k \in RedirectedJumpsIntoFunctions(fl) \ {EntryKey(fl)} :
    Callable(TryGetTargetFunctionType(k[2])) => IsCallThenReturn(fl, k)

C24_WitnessRedirectedJump ==
  \E k \in RedirectedJumpsIntoFunctions(fl) \ {EntryKey(fl)} :
    /\ Callable(TryGetTargetFunctionType(k[2]))
    /\ IsCallThenReturn(fl, k)
    /\ TargetAt(k[1]) \notin AddressesWithBlock(fl)

----------------------------------------------------------------------------
(* A function that is a jump to its own entry *)

\* The entry instruction of the function being lifted decodes as a direct
\* jump to the entry address, and the jump is not redirected.
EntryJumpsToItself ==
  /\ LoopEntered
  /\ AccumulateInstByte(Query(fl.func_address))
  /\ CategoryAt(fl.func_address) = "DirectJump"
  /\ TargetAt(fl.func_address) = fl.func_address
  /\ ~IsRedirected(fl.func_address)

\* The blocks that hold a lifted instruction.
InstructionBlocks(L) ==
  { b \in DOMAIN L.blocks :
      \E i \in 1..Len(L.blocks[b]) : L.blocks[b][i].op = "lift" }

\* The blocks that end in the error intrinsic.
ErrorBlocks(L) ==
  { b \in DOMAIN L.blocks :
      \E i \in 1..Len(L.blocks[b]) :
        L.blocks[b][i].op = "tailcall" /\ L.blocks[b][i].fn = "error" }

SelfLoopKeys(L) ==
  { <<0, L.func_address>>, <<L.func_address, L.func_address>> }

C25_WitnessAtZero ==
  /\ EntryJumpsToItself
  /\ phase = "done"
  /\ fl.func_address = 0
  /\ EdgeKeys(fl) = {<<0, 0>>}

----------------------------------------------------------------------------
(* The wiring of direct calls, conditional or not *)

\* What VisitDirectFunctionCall puts into the block of the instruction at
\* `a` after the instruction itself: the delayed instruction if it runs on
\* the taken path, the call, the two stores of the return address and the
\* branch to the block of the resume address.
DirectCallWiring(L, a) ==
  LET inst == InstAt(a)
      r == LoadFunctionReturnAddress(inst)
      key == <<a, GetRedirection(r.pc)>>
      slot == IF /\ MayHaveDelaySlot(inst)
                 /\ NextInstructionIsDelayed(inst, DelayedInstAt(a), TRUE)
                THEN <<LiftItem(inst.delayed_pc, TRUE)>> ELSE <<>>
  IN <<LiftItem(a, FALSE)>> \o slot
       \o <<ExpectedCall(a), StoreItem("PC", r.adjust),
            StoreItem("NEXT_PC", r.adjust),
            BranchItem(IF Has(L.edge_to_dest_block, key)
                         THEN L.edge_to_dest_block[key] ELSE NullInst)>>

----------------------------------------------------------------------------
(* Instructions of category Error *)

\* The addresses with a canonical block whose instruction decodes with
\* category Error.
ErrorSites(L) ==
  { a \in LiftedAddresses(L) :
      AccumulateInstByte(Query(a)) /\ CategoryAt(a) = "Error" }

\* What VisitError makes of the instruction at `a`: the instruction, its
\* delayed instruction if it runs on the taken path, and the tail call of
\* the error intrinsic with the state pointer muted.
ErrorWiring(a) ==
  LET inst == InstAt(a)
      slot == IF /\ MayHaveDelaySlot(inst)
                 /\ NextInstructionIsDelayed(inst, DelayedInstAt(a), TRUE)
                THEN <<LiftItem(inst.delayed_pc, TRUE)>> ELSE <<>>
  IN <<LiftItem(a, FALSE)>> \o slot
       \o <<MuteStateEscape(TerminatingTailCall("error"))>>

\* C27: the block of an instruction that decodes with category Error holds
\* the lifted instruction, then its delayed instruction when it runs on the
\* taken path, and then the muted tail call of the error intrinsic.
C27_ErrorInstructionLiftedThenError ==
  \A a \in ErrorSites(fl) : fl.blocks[fl.addr_to_block[a]] = ErrorWiring(a)

\* What the loop of VisitInstructions emits for such an instruction: the
\* muted tail call of the error intrinsic and nothing else.
C27_ErrorInstructionOnlyErrorCall ==
  \A a \in ErrorSites(fl) :
    fl.blocks[fl.addr_to_block[a]]
      = <<MuteStateEscape(TerminatingTailCall("error"))>>

C27_WitnessErrorSite ==
  \E a \in ErrorSites(fl) : phase = "done" /\ a # fl.func_address

----------------------------------------------------------------------------
(* Jumps to a redirected address that is declared only where it was *)

\* The dequeued edges of direct jumps whose target t is redirected to
\* another address, with a FunctionDecl at t and none at the redirected
\* address, for which CallFunction would build the typed call.
FallbackJumps(L) ==
  { k \in EdgeKeys(L) :
      /\ CategoryAt(k[1]) = "DirectJump"
      /\ AccumulateInstByte(Query(k[1]))
      /\ IsRedirected(TargetAt(k[1]))
      /\ k[2] = GetRedirection(TargetAt(k[1]))
      /\ TryGetFunctionType(k[2]) = 0
      /\ TryGetFunctionType(TargetAt(k[1])) # 0
      /\ Callable(TryGetTargetFunctionType(TargetAt(k[1])))
      /\ Count(L.n_dequeued, <<k[2], k[1]>>) > 0 }

\* The call CallFunction emits for a direct call to address t.
CallOfCallFunction(t) ==
  NativeCallItem(<<TryGetTargetFunctionType(t).address,
                   TryGetTargetFunctionType(t).type>>)

\* C28: a direct jump to an address t that is redirected elsewhere, with a
\* FunctionDecl at t and none at the redirected address, is lifted as the
\* call CallFunction resolves a direct call to t to, followed by a return.
C28_JumpResolvedAsCallFunctionDoes ==
  \A k \in FallbackJumps(fl) :
    fl.blocks[fl.edge_to_dest_block[k]]
      = <<CallOfCallFunction(TargetAt(k[1])), ReturnItem>>

\* What happens instead: the edge is never lifted as a call; the target is
\* handled as an address of the function being lifted.
C28_FallbackNotAppliedToJumps ==
  \A k \in FallbackJumps(fl) :
    /\ fl.blocks[fl.edge_to_dest_block[k]] # <<>>
    /\ \A i \in 1..Len(fl.blocks[fl.edge_to_dest_block[k]]) :
         fl.blocks[fl.edge_to_dest_block[k]][i].op # "call_native"
    /\ ~TryGetTargetFunctionType(k[2]).has

C28_WitnessFallbackJump ==
  \E k \in FallbackJumps(fl) : phase = "done" /\ k[1] # 0

----------------------------------------------------------------------------
(* The from-address 0 *)

\* The decoded instructions of the lift that have the entry of the function
\* among the redirections of their successors.
InstructionsLeadingToEntry(L) ==
  { a \in DOMAIN L.n_decoded :
      \E t \in Successors(a) : GetRedirection(t) = L.func_address }

\* The edge from the instruction at `a` back to the entry has a key of its
\* own, with a non-zero from-address, and its iteration attempts tail-call
\* resolution.
EdgeToEntryIsDistinct(L, a) ==
  \E k \in EdgeKeys(L) \ {EntryKey(L)} :
    /\ k[1] # 0
    /\ k[2] = L.func_address
    /\ Count(L.n_dequeued, <<k[2], k[1]>>) > 0 => <<k[2], k[1]>> \in L.resolved

\* C29: the only edge key and work-list entry with from-address 0 is the
\* one LiftFunction makes for the entry, and every decoded instruction that
\* leads back to the entry, wherever it is located, does so over an edge
\* with a non-zero from-address that goes through tail-call resolution.
C29_FromZeroIsEntryOnly ==
  /\ \A k \in EdgeKeys(fl) : k[1] = 0 => k = EntryKey(fl)
  /\ \A e \in DOMAIN fl.n_enqueued : e[2] = 0 => e[1] = fl.func_address
  /\ \A a \in InstructionsLeadingToEntry(fl) : EdgeToEntryIsDistinct(fl, a)

\* The same for the instructions that are not located at address 0, and
\* where the from-address 0 of the other keys comes from: the instruction at
\* address 0 was decoded.
C29_FromZeroIsEntryOrInstructionAtZero ==
  /\ \A k \in EdgeKeys(fl) \ {EntryKey(fl)} : Count(fl.n_decoded, k[1]) = 1
  /\ \A a \in InstructionsLeadingToEntry(fl) \ {0} : EdgeToEntryIsDistinct(fl, a)

\* An instruction at a non-zero address leads back to the entry, and the
\* instruction at address 0 has an edge of its own.
C29_WitnessBackEdge ==
  /\ phase = "done"
  /\ InstructionsLeadingToEntry(fl) \ {0} # {}

C29_WitnessInstructionAtZero ==
  \E k \in EdgeKeys(fl) \ {EntryKey(fl)} : k[1] = 0

----------------------------------------------------------------------------
(* Register type hints *)

\* The stack pointer of the architecture (remill::Arch::StackPointerRegisterName).
StackPointerRegisterName == "RSP"

\* The hints explored: every register, a pointer or a non-pointer type,
\* with or without a concrete value.
Hints ==
  [ reg_name : { r.name : r \in Registers },
    pointer : BOOLEAN,
    value : { <<>>, <<5>> } ]

\* The functions explored: one or two instructions and a return.
HintImages ==
  { [a \in Addr |-> IF a < n THEN Code("Normal", 0)
                    ELSE IF a = n THEN Code("FunctionReturn", 0)
                    ELSE Unmapped] : n \in {1, 2} }

\* No hint, a hint at the entry, or a hint at the entry and one at the next
\* instruction.
HintTables ==
  {NoRegisterHints}
  \cup { [a \in {0} |-> <<h>>] : h \in Hints }
  \cup { [a \in {0, 1} |-> IF a = 0 THEN <<h>> ELSE <<g>>] :
           h \in Hints,
           g \in { x \in Hints : x.reg_name \in {"RAX", "EAX"} /\ x.value = <<>> } }

InitHints ==
  /\ arch = "x86"
  /\ memory \in HintImages
  /\ redirections = EmptyMap
  /\ type_provider = NoDeclarations
  /\ entry_decl = [address |-> 0, type |-> 1]
  /\ null_deref = "trap"
  /\ options \in [ symbolic_register_types : BOOLEAN,
                   store_inferred_register_values : BOOLEAN,
                   symbolic_stack_pointer : BOOLEAN ]
  /\ register_hints \in HintTables
  /\ fl = NewLifter
  /\ phase = "start"
  /\ max_inst_size = 0
  /\ decode_log = NoDecodeLog
  /\ return_log = NoReturnLog
  /\ context = NewContext

SpecHints == InitHints /\ [][Next]_vars

\* The items that the hints on register reg_name put into the block of the
\* instruction at `a`: stores of concrete values and type-taint calls.
HintItems(L, a, reg_name) ==
  { i \in 1..Len(L.blocks[L.addr_to_block[a]]) :
      /\ L.blocks[L.addr_to_block[a]][i].op \in {"store_value", "taint"}
      /\ L.blocks[L.addr_to_block[a]][i].fn = reg_name }

\* The register is not a sub-register and is an integer register as wide as
\* an address.
TopLevelPointerSized(reg_name) ==
  LET reg == RegisterByName(reg_name)
  IN reg.enclosing = reg.name /\ reg.integer /\ reg.bits = AddressSize(arch)

\* The register is the stack pointer while the stack pointer is symbolic.
IsSymbolicStackPointer(reg_name) ==
  options.symbolic_stack_pointer /\ reg_name = StackPointerRegisterName

\* The hinted registers of the lifted instructions.
HintedRegisters(L) ==
  { p \in LiftedAddresses(L) \X { r.name : r \in Registers } :
      \E i \in 1..Len(HintsAt(p[1])) : HintsAt(p[1])[i].reg_name = p[2] }

\* C30: a hint puts a concrete-value store or a type-taint call into the
\* lifted code only when its register is a top-level, pointer-sized integer
\* register and is not the stack pointer while symbolic_stack_pointer is
\* enabled.
C30_HintsOnlyOnPlainPointerSizedRegisters ==
  \A p \in HintedRegisters(fl) :
    HintItems(fl, p[1], p[2]) # {} =>
      TopLevelPointerSized(p[2]) /\ ~IsSymbolicStackPointer(p[2])

\* The same without the condition on the stack pointer, and what is
\* emitted: nothing unless symbolic_register_types is on, the store iff
\* store_inferred_register_values is on and the hint has a value, the taint
\* call iff the hinted type is a pointer type.
C30_HintsOnlyOnTopLevelPointerSizedRegisters ==
  \A p \in HintedRegisters(fl) :
    LET items == fl.blocks[fl.addr_to_block[p[1]]]
        hint  == HintsAt(p[1])[1]
        on    == options.symbolic_register_types /\ TopLevelPointerSized(p[2])
    IN /\ HintItems(fl, p[1], p[2]) # {} => on
       /\ (\E i \in HintItems(fl, p[1], p[2]) : items[i].op = "store_value")
            <=> (on /\ options.store_inferred_register_values
                    /\ hint.value # <<>>)
       /\ (\E i \in HintItems(fl, p[1], p[2]) : items[i].op = "taint")
            <=> (on /\ hint.pointer)

\* A hint on a sub-register and one on a register of another width were
\* visited with the flags on and left nothing.
C30_WitnessSubRegister ==
  \E p \in HintedRegisters(fl) :
    /\ p[2] = "EAX" /\ options.symbolic_register_types
    /\ options.store_inferred_register_values
    /\ HintsAt(p[1])[1].pointer /\ HintsAt(p[1])[1].value # <<>>
    /\ HintItems(fl, p[1], p[2]) = {}

C30_WitnessTaint ==
  \E p \in HintedRegisters(fl) :
    /\ p[2] = "RAX"
    /\ Cardinality(HintItems(fl, p[1], p[2])) = 2

----------------------------------------------------------------------------
(* Stores of the concrete values of hints *)

\* The hinted registers of lifted instructions to which a hint applies: a
\* top-level pointer-sized integer register, not the symbolic stack pointer.
ApplicableHints(L) ==
  { p \in HintedRegisters(L) :
      TopLevelPointerSized(p[2]) /\ ~IsSymbolicStackPointer(p[2]) }

\* The block of the instruction at p[1] holds a store of the concrete value
\* of the hint into register p[2].
ValueStored(L, p) ==
  \E i \in HintItems(L, p[1], p[2]) :
    L.blocks[L.addr_to_block[p[1]]][i]
      = ValueStoreItem(p[2], HintsAt(p[1])[1].value[1])

AnyValueStored(L, p) ==
  \E i \in HintItems(L, p[1], p[2]) :
    L.blocks[L.addr_to_block[p[1]]][i].op = "store_value"

\* C31: with store_inferred_register_values enabled the concrete value of
\* every applicable hint that has one is stored into the hinted register,
\* whatever the hinted type and whether symbolic_register_types is enabled
\* or not; with store_inferred_register_values disabled nothing is stored.
C31_ValueStoredIffStoreInferred ==
  /\ \A p \in ApplicableHints(fl) :
       (options.store_inferred_register_values
          /\ HintsAt(p[1])[1].value # <<>>) => ValueStored(fl, p)
  /\ \A p \in HintedRegisters(fl) :
       ~options.store_inferred_register_values => ~AnyValueStored(fl, p)

\* The same where the hints are visited at all, that is with
\* symbolic_register_types enabled; and without it nothing is stored.
C31_ValueStoredWhenHintsVisited ==
  /\ \A p \in ApplicableHints(fl) :
       (options.symbolic_register_types
          /\ options.store_inferred_register_values
          /\ HintsAt(p[1])[1].value # <<>>) => ValueStored(fl, p)
  /\ \A p \in HintedRegisters(fl) :
       (~options.store_inferred_register_values
          \/ ~options.symbolic_register_types) => ~AnyValueStored(fl, p)

\* The value of a hint of a non-pointer type was stored.
C31_WitnessStored ==
  \E p \in ApplicableHints(fl) :
    ~HintsAt(p[1])[1].pointer /\ ValueStored(fl, p)

\* A hint with a value was visited with store_inferred_register_values off.
C31_WitnessNotStored ==
  \E p \in ApplicableHints(fl) :
    /\ options.symbolic_register_types
    /\ ~options.store_inferred_register_values
    /\ HintsAt(p[1])[1].value # <<>>
    /\ HintItems(fl, p[1], p[2]) # {}

----------------------------------------------------------------------------
(* The locations the wrapper marshals through *)

\* A FunctionDecl whose locations are not the ones the calling convention
\* gives its type (a specification with custom registers and stack slots).
CustomLocations ==
  [ return_address |-> <<"custom", "return_address">>,
    params |-> << <<"custom", "param">> >>,
    returns |-> << <<"custom", "return">> >> ]

\* The FunctionDecls passed to LiftFunction: at address 0 or 1, with the
\* locations of the calling convention or with custom ones.
DeclsWithLocations ==
  { [address |-> a, type |-> 1, locations |-> l] :
      a \in {0, 1}, l \in {FunctionDeclCreate(1), CustomLocations} }

InitWrapper ==
  /\ arch = "x86"
  /\ max_inst_size = 0
  /\ decode_log = NoDecodeLog
  /\ return_log = NoReturnLog
  /\ context = NewContext
  /\ options = DefaultOptions
  /\ register_hints = NoRegisterHints
  /\ redirections = EmptyMap
  /\ null_deref = "trap"
  /\ entry_decl \in DeclsWithLocations
  /\ memory \in [Addr -> CommonCells]
  /\ LiveMemory(Reachable({entry_decl.address}))
  /\ type_provider \in {NoDeclarations, EntriesDeclared}
  /\ fl = NewLifter
  /\ phase = "start"

SpecWrapper == InitWrapper /\ [][Next]_vars

\* LiftFunction(entry_decl) has returned the wrapper and gave it its body.
WrapperBuilt ==
  /\ phase = "done"
  /\ fl.returned # NullFunc
  /\ Has(fl.marshalling, fl.returned)

\* C32: the wrapper LiftFunction(decl) builds stores the return address and
\* the parameters and loads the return values at the locations of the
\* FunctionDecl that was passed to LiftFunction.
C32_WrapperUsesLocationsOfDecl ==
  WrapperBuilt => fl.marshalling[fl.returned] = entry_decl.locations

\* What the wrapper uses: the locations FunctionDecl::Create derives from
\* the type and calling convention of the wrapper function.
C32_WrapperUsesLocationsOfType ==
  WrapperBuilt =>
    fl.marshalling[fl.returned] = FunctionDeclCreate(entry_decl.type)

C32_WitnessCustomLocations ==
  WrapperBuilt /\ entry_decl.locations = CustomLocations

----------------------------------------------------------------------------
(* Lifting a function again after it was added to the context *)

\* The pairs of LiftEntity calls for one FunctionDecl whose first call
\* lifted a semantic body (the entry byte was available) and added the
\* function to the context.
Relifts ==
  { p \in CallPairs :
      /\ context.calls[p[1]].decl = context.calls[p[2]].decl
      /\ context.calls[p[1]].returned # NullEntity
      /\ Has(fl.module, LiftedName(context.calls[p[1]].returned[2])) }

\* The source function of entity e in the semantics module is a declaration.
SourceIsDeclaration(e) ==
  Has(fl.module, e[2]) /\ ~fl.module[e[2]].body

\* C33: after AddFunctionToContext the source function still exists in the
\* lifter's module and has no body, and a later lift of the same
\* FunctionDecl runs to its end and returns the function, lifted again.
C33_ReliftAfterAddFunctionToContext ==
  /\ \A i \in 1..Len(context.calls) :
       context.calls[i].returned # NullEntity
         => SourceIsDeclaration(context.calls[i].returned)
  /\ \A p \in Relifts :
       /\ phase # "abort"
       /\ context.calls[p[2]].returned = context.calls[p[1]].returned

\* The first half alone: the source function is left as a declaration.
C33_SourceLeftAsDeclaration ==
  \A i \in 1..Len(context.calls) :
    context.calls[i].returned # NullEntity
      => SourceIsDeclaration(context.calls[i].returned)

\* What the second lift does: the process aborts in LiftFunction.
C33_ReliftAborts ==
  \A p \in Relifts :
    /\ phase = "abort"
    /\ fl.aborted = "CHECK lifted_func->isDeclaration()"
    /\ context.calls[p[2]].returned = NullEntity

C33_WitnessRelift == Relifts # {}

C33_WitnessAdded ==
  /\ phase = "entity"
  /\ \E i \in 1..Len(context.calls) :
       /\ context.calls[i].returned # NullEntity
       /\ context.module[context.calls[i].returned[2]].body

----------------------------------------------------------------------------
(* Every block ends in a terminator *)

\* An instruction of any category at the entry, naming address 0 or 2, with
\* the annul bit clear or set.
AnyCategoryCells ==
  { Code(Categories[c], t + 8 * annul) :
      c \in 1..Len(Categories), t \in {0, 2}, annul \in {0, 1} }

InitCategories ==
  /\ arch \in Archs
  /\ memory \in { [a \in Addr |-> IF a = 0 THEN site ELSE rest[a]] :
                    site \in AnyCategoryCells,
                    rest \in [Addr \ {0} -> SlotCells] }
  /\ IsSPARC(arch) \/ memory[0].byte % 16 < 8
  /\ redirections = EmptyMap
  /\ type_provider \in {NoDeclarations, [x \in Addr |-> IF x = 2 THEN 1 ELSE 0]}
  /\ entry_decl = [address |-> 0, type |-> 1]
  /\ null_deref = "trap"
  /\ options = DefaultOptions
  /\ register_hints = NoRegisterHints
  /\ fl = NewLifter
  /\ phase = "start"
  /\ max_inst_size = 0
  /\ decode_log = NoDecodeLog
  /\ return_log = NoReturnLog
  /\ context = NewContext

SpecCategories == InitCategories /\ [][Next]_vars

\* The items that end a block: branches, the return, and the terminating
\* tail call (a call followed by a return of its result).
Terminators == {"br", "condbr", "ret", "tailcall"}

\* The block is not empty, its last item is a terminator and no other is.
EndsInOneTerminator(items) ==
  /\ items # <<>>
  /\ items[Len(items)].op \in Terminators
  /\ \A i \in 1..(Len(items) - 1) : items[i].op \notin Terminators

\* The loop of VisitInstructions has found the work list empty.
WorkListEmptied ==
  /\ LoopEntered
  /\ phase \in {"visit", "done"}
  /\ fl.edge_work_list = {}

\* The blocks the conditional visitors made for the taken and not-taken
\* sides.
SideBlocks(L) ==
  UNION { { L.blocks[b][i].t, L.blocks[b][i].f } :
          <<b, i>> \in { p \in (DOMAIN L.blocks) \X (1..4) :
                           /\ p[2] <= Len(L.blocks[p[1]])
                           /\ L.blocks[p[1]][p[2]].op = "condbr" } }

\* C34: when the work list has become empty, every block of the edge map
\* and every taken/not-taken block of a conditional visitor is non-empty
\* and ends in exactly one terminator, as does every other block of the
\* function.
C34_EveryBlockTerminated ==
  WorkListEmptied =>
    /\ \A b \in EdgeBlocks(fl) \cup SideBlocks(fl) :
         EndsInOneTerminator(fl.blocks[b])
    /\ \A b \in DOMAIN fl.blocks : EndsInOneTerminator(fl.blocks[b])

\* A finished loop with side blocks, and one for each category at the entry.
C34_Witness ==
  /\ WorkListEmptied
  /\ SideBlocks(fl) # {}
  /\ Cardinality(EdgeBlocks(fl)) >= 2

C34_WitnessAsyncHyperCall ==
  /\ WorkListEmptied
  /\ CategoryAt(0) = "AsyncHyperCall"
  /\ IsSPARC(arch)

----------------------------------------------------------------------------
(* The successors of a call site *)

\* The addresses a call site at `a` may enqueue: the redirected resume
\* address, and the redirected branch_not_taken_pc where the call is split
\* into a taken and a not-taken block.
CallSiteSuccessors(a) ==
  {GetRedirection(LoadFunctionReturnAddress(InstAt(a)).pc)}
  \cup (IF CategoryAt(a) = "ConditionalIndirectFunctionCall"
          THEN {GetRedirection(NotTakenPc(a))} ELSE {})

\* The destinations of the edges that leave the instruction at `a`, in the
\* edge map and in the work list; the edge of the function's entry is not
\* one of them.
EdgesLeaving(L, a) ==
  { k[2] : k \in { e \in EdgeKeys(L) \ {EntryKey(L)} : e[1] = a } }
  \cup { w[1] : w \in { e \in L.edge_work_list :
                          e[2] = a /\ <<e[2], e[1]>> # EntryKey(L) } }

\* C35: a call instruction never creates a block or a work-list entry for
\* its call target: the edges leaving a call site lead to the redirected
\* resume address and, for a split conditional call, to the redirected
\* branch_not_taken_pc only.
C35_NoEdgeToCallTarget ==
  \A a \in CallSites(fl) : EdgesLeaving(fl, a) \subseteq CallSiteSuccessors(a)

\* A direct call site whose target is declared and is none of the
\* successors, and an indirect conditional one.
C35_Witness ==
  \E a \in CallSites(fl) :
    /\ CategoryAt(a) \in {"DirectFunctionCall", "ConditionalDirectFunctionCall"}
    /\ GetRedirection(TargetAt(a)) \notin CallSiteSuccessors(a)
    /\ TargetAt(a) \notin CallSiteSuccessors(a)
    /\ \E p \in CallsOfSite(fl, a) : fl.blocks[p[1]][p[2]].op = "call_native"
    /\ EdgesLeaving(fl, a) # {}

C35_WitnessSplit ==
  \E a \in CallSites(fl) :
    /\ CategoryAt(a) = "ConditionalIndirectFunctionCall"
    /\ Cardinality(EdgesLeaving(fl, a)) = 2

----------------------------------------------------------------------------
(* The work-list driver and a function that cannot be declared *)

\* The address of the work-list entry e resolves to a FunctionDecl for
\* which DeclareFunction returns null: its effective address is not valid,
\* executable memory.
ResolvesToNullFunction(e) ==
  LET d == TryGetTargetFunctionType(e[1])
  IN /\ d.has
     /\ \/ ~IsValidAddress(Query(d.address).avail)
        \/ ~IsExecutable(Query(d.address).perms)

\* Some block holds a typed call of the null function.
CallsNullFunction(L) ==
  \E b \in DOMAIN L.blocks :
    \E i \in 1..Len(L.blocks[b]) :
      L.blocks[b][i].op = "call_native" /\ L.blocks[b][i].fn = ""

\* The driver has left the null function alone and has decoded at the
\* address of every such entry.
DriverRecovers(L) ==
  \A e \in { r \in L.resolved : ResolvesToNullFunction(r) } :
    /\ L.aborted # "null function dereferenced"
    /\ ~CallsNullFunction(L)
    /\ Has(L.n_decoded, e[1])

\* C36: when the work-list driver resolves an address to a FunctionDecl for
\* which DeclareFunction returns null, it does not attempt the typed call
\* with the null function and recovers by decoding at that address.
C36_DriverChecksDeclareFunction == DriverRecovers(fl)

\* The driver recovers by decoding in the builds in which the null
\* dereference happens to make FunctionDecl::Create fail.
C36_DriverRecoversIfCreateFails ==
  null_deref = "create_fails" => DriverRecovers(fl)

\* The driver has passed the null function to TryCallNativeFunction in
\* each of the three outcomes of the dereference.
C36_WitnessTrap ==
  /\ \E e \in fl.resolved : ResolvesToNullFunction(e)
  /\ fl.aborted = "null function dereferenced"

C36_WitnessCallEmitted ==
  /\ \E e \in fl.resolved : ResolvesToNullFunction(e)
  /\ CallsNullFunction(fl)

C36_WitnessCreateFails ==
  /\ \E e \in fl.resolved : ResolvesToNullFunction(e)
  /\ null_deref = "create_fails"
  /\ phase = "done"

----------------------------------------------------------------------------
(* A delay slot that cannot be decoded *)

\* The lifted instructions that have a delay slot whose decoding fails.
FailedDelaySlotSites(L) ==
  { a \in LiftedAddresses(L) :
      MayHaveDelaySlot(InstAt(a)) /\ ~DelayedInstAt(a).ok }

\* The delayed instruction of `a` is lifted into one of the blocks of `a`.
DelayedLiftedAnywhere(L, a) ==
  \E blk \in SiteBlocks(L, a) : DelayedLiftedInto(L, a, blk)

\* C37: if decoding the delay-slot instruction at inst.delayed_pc fails,
\* nothing from the delay slot is lifted into any outgoing path of the
\* instruction, and the control-flow wiring of the instruction itself is
\* still emitted.
C37_FailedDelaySlotNotLifted ==
  \A a \in FailedDelaySlotSites(fl) :
    /\ ~DelayedLiftedAnywhere(fl, a)
    /\ \A blk \in SiteBlocks(fl, a) : EndsInOneTerminator(fl.blocks[blk])

\* The second half: the wiring of the instruction is emitted also when its
\* delay slot cannot be decoded.
C37_WiringEmittedAfterFailedDelaySlot ==
  \A a \in FailedDelaySlotSites(fl) :
    \A blk \in SiteBlocks(fl, a) : EndsInOneTerminator(fl.blocks[blk])

\* What the code does with the delay slot: the instruction object of the
\* failed decode is lifted on every path on which NextInstructionIsDelayed
\* holds for it.
C37_FailedDelaySlotLiftedAsQueried ==
  \A a \in FailedDelaySlotSites(fl) :
    DelayedLiftedAnywhere(fl, a)
      <=> \/ NextInstructionIsDelayed(InstAt(a), DelayedInstAt(a), TRUE)
          \/ /\ CategoryAt(a) \in TwoPathCategories
                                    \ {"ConditionalDirectFunctionCall"}
             /\ NextInstructionIsDelayed(InstAt(a), DelayedInstAt(a), FALSE)

\* A delay slot without a byte, and one that holds a return, lifted.
C37_WitnessUnmappedSlot ==
  \E a \in FailedDelaySlotSites(fl) :
    /\ Query(InstAt(a).delayed_pc) = Unmapped
    /\ DelayedLiftedAnywhere(fl, a)

C37_WitnessReturnInSlot ==
  \E a \in FailedDelaySlotSites(fl) :
    /\ Query(InstAt(a).delayed_pc) = Code("FunctionReturn", 0)
    /\ DelayedLiftedAnywhere(fl, a)

----------------------------------------------------------------------------
(* Termination of the inlining loop *)

\* The functions of the semantics module that have a body and may be
\* inlined: the semantics of an instruction, of a delayed instruction, and
\* a helper.
SemanticsFunctions == {"inst", "delayed", "helper"}

\* LiftFunction from the end of VisitInstructions to the inlining loop
\* (line 1553): the wrapper gets its body.
FinishVisitInstructions ==
  /\ phase = "visit"
  /\ fl.edge_work_list = {}
  /\ fl' = CallLiftedFunctionFromNativeFunction(fl)
  /\ phase' = "inline"
  /\ UNCHANGED <<inputs, max_inst_size, logs, context>>

\* calls_to_inline as one iteration of the loop collects it.
CallsToInline(L) ==
  IF Has(L.bodies, L.native_func)
    THEN L.bodies[L.native_func].lifted \cup L.bodies[L.native_func].semantics
    ELSE {}

\* One iteration of the loop `for (changed = true; changed; changed =
\* !calls_to_inline.empty())`: the calls are collected and inlined; the
\* iteration that collects none is the last, and LiftFunction returns.
InlineIteration ==
  /\ phase = "inline"
  /\ IF CallsToInline(fl) = {}
       THEN /\ fl' = [fl EXCEPT !.returned = fl.native_func]
            /\ phase' = "done"
       ELSE /\ fl' = [fl EXCEPT !.bodies[fl.native_func] = InlineRound(fl, @)]
            /\ phase' = "inline"
  /\ UNCHANGED <<inputs, max_inst_size, logs, context>>

InitInline ==
  /\ arch = "x86"
  /\ max_inst_size = 0
  /\ decode_log = NoDecodeLog
  /\ return_log = NoReturnLog
  /\ context = NewContext
  /\ options = DefaultOptions
  /\ register_hints = NoRegisterHints
  /\ redirections = EmptyMap
  /\ null_deref = "trap"
  /\ entry_decl = [address |-> 0, type |-> 1]
  /\ memory \in [Addr -> {Code("Normal", 0), Code("FunctionReturn", 0)}]
  /\ \A a \in Addr \ {0} : memory[a] = Code("FunctionReturn", 0)
  /\ type_provider = NoDeclarations
  /\ \E calls \in [SemanticsFunctions -> SUBSET SemanticsFunctions],
        failing \in SUBSET SemanticsFunctions :
       fl = [NewLifter EXCEPT !.semantics_calls = calls,
                              !.not_inlinable = failing]
  /\ phase = "start"

NextInline ==
  \/ CallLiftFunction
  \/ VisitInstructionsIteration
  \/ FinishVisitInstructions
  \/ InlineIteration

\* The loop keeps running while it is not left: an iteration that can be
\* taken is taken.
SpecInline == InitInline /\ [][NextInline]_vars /\ WF_vars(InlineIteration)

\* The functions of the semantics module that the wrapper comes to call
\* while it is inlined: those the semantic body calls and their callees.
RECURSIVE CalleesWithin(_, _, _)
CalleesWithin(L, from, n) ==
  IF n = 0 THEN from
  ELSE CalleesWithin(L, from \cup UNION { CalleesOf(L, c) : c \in from }, n - 1)

InlinedCallees(L) ==
  CalleesWithin(L, {"inst"}, Cardinality(SemanticsFunctions))

\* No inline attempt fails, and no callee calls itself or, through others,
\* is called by one it calls.
InliningIsWellFounded(L) ==
  /\ InlinedCallees(L) \cap L.not_inlinable = {}
  /\ \A c \in InlinedCallees(L) :
       c \notin CalleesWithin(L, CalleesOf(L, c), Cardinality(SemanticsFunctions))

\* C38: the inlining loop terminates for every wrapper, also when an inline
\* attempt fails and leaves the call in place and when inlinable callees
\* call themselves or each other: a LiftFunction that has entered the loop
\* eventually leaves it and returns.
C38_InliningTerminates == (phase = "inline") ~> (phase = "done")

\* The loop terminates where every inline attempt succeeds and the callees
\* do not call themselves or each other in a cycle.
C38_TerminatesIfWellFounded ==
  (phase = "inline" /\ InliningIsWellFounded(fl)) ~> (phase = "done")

\* The loop is not left while a call of a callee with a body remains.
C38_LeftOnlyWhenNothingToInline ==
  phase = "done" => CallsToInline(fl) = {}

\* The loop has ended after it inlined callees of callees; the loop is in
\* a round that can only repeat: a failing callee, and a callee that calls
\* itself.
C38_WitnessTerminated ==
  /\ phase = "done"
  /\ InliningIsWellFounded(fl)
  /\ CalleesOf(fl, "inst") = {"delayed"}
  /\ CalleesOf(fl, "delayed") = {"helper"}

C38_WitnessInlineFails ==
  /\ phase = "inline"
  /\ CallsToInline(fl) # {}
  /\ CallsToInline(fl) \subseteq fl.not_inlinable

C38_WitnessRecursive ==
  /\ phase = "inline"
  /\ fl.not_inlinable = {}
  /\ CallsToInline(fl) = {"helper"}
  /\ CalleesOf(fl, "helper") = {"helper"}

----------------------------------------------------------------------------
(* LiftEntity when LiftFunction fails *)

\* The memory provider stops answering for the byte at the entry of a
\* function, or reports it as data, between two calls of LiftEntity.
RemapCells ==
  { Unmapped, Cell(Enc("FunctionReturn", 0), "Available", "RW") }

RemapMemory ==
  /\ phase = "entity"
  /\ Len(context.calls) < MaxLiftEntityCalls
  /\ \E a \in {0, 1}, cell \in RemapCells :
       /\ memory[a] \notin RemapCells
       /\ memory' = [memory EXCEPT ![a] = cell]
  /\ UNCHANGED <<redirections, type_provider, arch, entry_decl, null_deref,
                 options, register_hints, fl, phase, max_inst_size, logs,
                 context>>

InitEntityRemap ==
  /\ arch = "x86"
  /\ max_inst_size = 0
  /\ decode_log = NoDecodeLog
  /\ return_log = NoReturnLog
  /\ context = NewContext
  /\ options = DefaultOptions
  /\ register_hints = NoRegisterHints
  /\ redirections = EmptyMap
  /\ null_deref = "trap"
  /\ entry_decl = [address |-> 0, type |-> 1]
  /\ memory \in [Addr -> {Code("FunctionReturn", 0), Code("Normal", 0)}
                           \cup RemapCells]
  /\ LiveMemory(Reachable({0, 1}))
  /\ type_provider = NoDeclarations
  /\ fl = NewLifter
  /\ phase = "entity"

NextEntityRemap ==
  \/ CallLiftEntity
  \/ RemapMemory

SpecEntityRemap == InitEntityRemap /\ [][NextEntityRemap]_vars

\* The step is a call of LiftEntity in which LiftFunction returned null.
LiftFunctionFailed ==
  /\ Len(context'.calls) = Len(context.calls) + 1
  /\ ~Aborted(fl')
  /\ fl'.returned = NullFunc

\* The entities of the type of decl registered at its address.
RegisteredByType(C, decl) ==
  { e \in EntitiesAt(C, decl.address) : EntityType(e) = decl.type }

\* What LiftEntity returns is a registered function of the matching type,
\* or null if there is none.
ReturnsRegistered(C, call) ==
  IF RegisteredByType(C, call.decl) = {}
    THEN call.returned = NullEntity
    ELSE call.returned \in RegisteredByType(C, call.decl)

\* C39: if LiftFunction fails inside LiftEntity, LiftEntity returns the
\* function of matching type already registered at that address, or null
\* if there is none, and leaves the target module and the maps between
\* addresses and entities unchanged.
C39_FailedLiftLeavesContext ==
  [][ LiftFunctionFailed =>
        /\ ReturnsRegistered(context, context'.calls[Len(context'.calls)])
        /\ context'.module = context.module
        /\ context'.entities = context.entities ]_vars

\* LiftEntity has returned null after a failed LiftFunction, while the
\* context holds functions of earlier calls.
C39_WitnessNull ==
  /\ phase = "entity"
  /\ context.calls # <<>>
  /\ fl.returned = NullFunc
  /\ context.calls[Len(context.calls)].returned = NullEntity
  /\ context.entities # EmptyMap

\* LiftEntity has returned a registered function after a failed
\* LiftFunction.
C39_WitnessRegistered ==
  /\ phase = "entity"
  /\ context.calls # <<>>
  /\ fl.returned = NullFunc
  /\ context.calls[Len(context.calls)].returned # NullEntity

====
